---- MODULE Spec2Model ----
(***************************************************************************)
(* A model of the two resource-allocation engines of flow2api:             *)
(*   - BrowserCaptchaService / TokenBrowser (services/browser_captcha.py): *)
(*     a pool of browser workers that mint reCAPTCHA tokens, gated by a    *)
(*     pool-wide semaphore and dispatched by round robin;                  *)
(*   - LoadBalancer.select_token (services/load_balancer.py): the filter   *)
(*     and random choice of an account token.                              *)
(* Coroutines run on one asyncio event loop, so an action is the code that *)
(* runs between two suspension points (an await that really suspends).     *)
(***************************************************************************)
EXTENDS Integers, Sequences, FiniteSets, TLC

\* ---------------------------------------------------------------- bounds
NumCallers == 2      \* concurrent callers of BrowserCaptchaService.get_token
MaxBrowsers == 2     \* largest browser_count the configuration store returns
MaxRequests == 5     \* get_token calls that pass the availability gate
NumTokens == 3       \* accounts known to the token manager
NumSelectors == 2    \* select_token calls that run at once
NumReloaders == 2    \* concurrent callers of reload_browser_count
MaxReloads == 2      \* reload_browser_count calls in one behaviour
MaxReports == 1      \* report_error calls in one behaviour
MaxReloadRequests == 3   \* get_token calls in a behaviour with reloads
MaxAdminRequests == 2    \* get_token calls in a behaviour with every admin call
MaxLiveRequests == 2     \* get_token calls in a behaviour of the fair event loop

\* ------------------------------------------------------ program constants
MAX_RETRIES == 3
PLAUSIBLE_LEN == 80   \* a token is accepted when it is longer than this

None == "None"
NoId == -1           \* a browser id that is None
Callers == 1..NumCallers
Reloaders == 1..NumReloaders
BrowserIds == 0..(MaxBrowsers - 1)
TokenIds == 1..NumTokens
Selectors == 1..NumSelectors

\* Exceptions a step of an attempt can raise. playwright's Error and
\* TimeoutError and the OSError of Path.mkdir derive from Exception;
\* asyncio.CancelledError, raised at an await when the caller's task is
\* cancelled, derives from BaseException only.
ExceptionSubclasses == {"Error", "TimeoutError", "OSError"}
BaseExceptions == ExceptionSubclasses \cup {"CancelledError"}

VARIABLES
    \* module-level flags of browser_captcha.py, fixed at import time
    IS_DOCKER, ALLOW_DOCKER_BROWSER_CAPTCHA, PLAYWRIGHT_AVAILABLE,
    \* BrowserCaptchaService
    browser_count,       \* self._browser_count
    round_robin_index,   \* self._round_robin_index
    stats,               \* self._stats
    browsers,            \* self._browsers: browser id -> index into objs
    token_semaphore,     \* self._token_semaphore: index into sems, 0 is None
    sems,                \* every asyncio.Semaphore made for the pool: its _value
    objs,                \* every TokenBrowser made: token_id, lock, counters
    \* callers of get_token
    call,                \* the coroutine's position and locals
    session,             \* the automation objects of the caller's current attempt
    ret,                 \* how the caller's last call ended
    dispatched,          \* history: the ids _get_next_browser_id has returned
    \* the pool's configuration store and its administration
    db,                  \* self.db is not None
    reload,              \* callers of reload_browser_count: position, old_count
    got,                 \* what the last get_stats call returned
    inst,                \* callers of get_instance: what each has of cls._instance
    \* one attempt looked at alone
    exec,                \* a call's action and page, and what _execute_captcha did
    proxy,               \* a launch's proxy settings, and what _create_browser did
    \* LoadBalancer and its collaborators
    tokens,              \* token manager: the account records
    image_full,          \* concurrency manager: accounts at their image ceiling
    video_full,          \* concurrency manager: accounts at their video ceiling
    concurrency_manager, \* self.concurrency_manager is not None
    lb,                  \* the last select_token call: arguments, locals, result
    sels                 \* select_token calls that run at once: position, locals

envvars == <<IS_DOCKER, ALLOW_DOCKER_BROWSER_CAPTCHA, PLAYWRIGHT_AVAILABLE>>
poolvars == <<browser_count, round_robin_index, stats, browsers, token_semaphore,
              sems, objs, call, session, ret, dispatched>>
adminvars == <<db, reload, got, inst>>
pagevars == <<exec, proxy>>
lbvars == <<tokens, image_full, video_full, concurrency_manager, lb, sels>>
vars == <<envvars, poolvars, adminvars, pagevars, lbvars>>

\* ============================================================ the pool

\* BrowserCaptchaService._check_available: the call raises RuntimeError
\* unless this holds.
CheckAvailable ==
    /\ ~(IS_DOCKER /\ ~ALLOW_DOCKER_BROWSER_CAPTCHA)
    /\ PLAYWRIGHT_AVAILABLE

\* What `await self.db.get_captcha_config()` can do in _load_browser_count:
\* there is no db, or the read raises, or it returns a browser_count.
ConfigReads ==
    {[db |-> FALSE, fails |-> FALSE, browser_count |-> 0]}
    \cup {[db |-> TRUE, fails |-> TRUE, browser_count |-> 0]}
    \cup {[db |-> TRUE, fails |-> FALSE, browser_count |-> n] : n \in 0..MaxBrowsers}

\* BrowserCaptchaService._load_browser_count: the count it leaves when the
\* configuration read does cfg. __init__ has set the count to 1.
LoadBrowserCount(cfg) ==
    IF ~cfg.db THEN 1
    ELSE IF cfg.fails THEN 1
    ELSE IF cfg.browser_count > 1 THEN cfg.browser_count ELSE 1

\* TokenBrowser.__init__: the worker's id and its Semaphore(1). The counters
\* _solve_count and _error_count are written and never read, and are left out.
NewTokenBrowser(browser_id) ==
    [token_id |-> browser_id, locked |-> FALSE]

\* The automation objects of one attempt: which of them are live (created
\* and not torn down), whether get_token's locals name them, and how the
\* attempt ended ("none" while it runs).
NoSession ==
    [playwright |-> FALSE, browser |-> FALSE, context |-> FALSE, page |-> FALSE,
     bound |-> FALSE, ended |-> "none"]

\* How the readiness waits of an attempt went: "never" when every wait timed
\* out and the runtime was still absent when the execute calls ran, "late"
\* when every wait timed out and the runtime appeared after the last one,
\* "other" when the runtime was seen or the step was not reached. Of two
\* attempts, the one further from "never".
WorstWaits(a, b) ==
    IF a = "other" \/ b = "other" THEN "other"
    ELSE IF a = "late" \/ b = "late" THEN "late"
    ELSE "never"

\* waits: WorstWaits over the attempts the call has ended so far.
IdleCall ==
    [pc |-> "idle", sem |-> 0, browser_id |-> NoId, obj |-> 0, attempt |-> 0,
     waits |-> "never"]

NoRet ==
    [kind |-> "none", token |-> None, browser_id |-> NoId, exc |-> None,
     waits |-> "other"]

\* The positions of a get_token coroutine between the acquisition of the
\* pool semaphore and its release.
AdmittedPcs == {"wait_worker", "start", "launch", "new_context", "new_page",
                "run", "sleep"}
\* The positions inside TokenBrowser.get_token's `async with self._semaphore`.
SolvePcs == AdmittedPcs \ {"wait_worker"}
\* The positions inside one attempt of the retry loop.
AttemptPcs == SolvePcs \ {"sleep"}

Live(s) == {r \in {"playwright", "browser", "context", "page"} : s[r]}

\* playwright.stop(): the driver process exits and takes down what it owns.
PlaywrightStop(s) ==
    [s EXCEPT !.playwright = FALSE, !.browser = FALSE, !.context = FALSE, !.page = FALSE]

\* TokenBrowser._close_browser(playwright, browser, context), called with
\* get_token's locals: they are None unless _create_browser returned.
CloseBrowser(s) ==
    IF s.bound
    THEN [s EXCEPT !.context = FALSE, !.page = FALSE, !.browser = FALSE,
                   !.playwright = FALSE]
    ELSE s

\* The three `except Exception` handlers on the way of an automation error:
\* in _create_browser, in _execute_captcha and in TokenBrowser.get_token.
CreateBrowserCatches(e) == e \in ExceptionSubclasses
ExecuteCaptchaCatches(e) == e \in ExceptionSubclasses

\* Mutant: get_token's handler catches timeouts only.
GetTokenCatchesTimeoutOnly(e) == e = "TimeoutError"

GetTokenCatches(e) == e \in ExceptionSubclasses

\* Mutant: the index is incremented before the id is computed.
GetNextBrowserIdPreIncrement == (round_robin_index + 1) % browser_count

\* Mutant: the id is taken modulo the largest count the store can hold, not
\* the count in force.
GetNextBrowserIdMaxCount == round_robin_index % MaxBrowsers

\* Mutant: a worker that is not solving is preferred to the one whose turn
\* it is.
GetNextBrowserIdPrefersIdle ==
    LET turn == round_robin_index % browser_count
        idle == {b \in 0..(browser_count - 1) :
                    b \notin DOMAIN browsers \/ ~objs[browsers[b]].locked}
    IN  IF turn \in idle \/ idle = {} THEN turn ELSE CHOOSE b \in idle : TRUE

\* BrowserCaptchaService._get_next_browser_id: the id returned.
GetNextBrowserId == round_robin_index % browser_count

\* Mutant: the pool semaphore admits a caller whatever its value.
SemFreeAlways(s) == TRUE

\* asyncio.Semaphore.acquire without suspension: the semaphore is free.
SemFree(s) == sems[s] > 0

\* Mutant: the worker's lock admits a caller while it is held.
WorkerFreeAlways(o, oo) == TRUE

\* asyncio.Semaphore(1).acquire of a worker without suspension: its lock is
\* free. oo is the sequence of worker objects.
WorkerFree(o, oo) == ~oo[o].locked

\* TokenBrowser.get_token entered by caller c, which holds pool semaphore s,
\* on worker object o of oo (objs after _get_or_create_browser): it takes
\* the worker's lock and starts the first attempt, or suspends on the lock.
EnterWorker(c, s, bid, o, oo) ==
    IF WorkerFree(o, oo)
    THEN /\ objs' = [oo EXCEPT ![o].locked = TRUE]
         /\ call' = [call EXCEPT ![c] = [IdleCall EXCEPT !.pc = "start", !.sem = s,
                                          !.browser_id = bid, !.obj = o]]
    ELSE /\ objs' = oo
         /\ call' = [call EXCEPT ![c] = [IdleCall EXCEPT !.pc = "wait_worker", !.sem = s,
                                          !.browser_id = bid, !.obj = o]]

\* The body of `async with self._token_semaphore` up to the first suspension:
\* _get_next_browser_id, _get_or_create_browser, then the worker's lock.
Dispatch(c, s) ==
    LET bid == GetNextBrowserId
        fresh == bid \notin DOMAIN browsers
        oo == IF fresh THEN Append(objs, NewTokenBrowser(bid)) ELSE objs
        o == IF fresh THEN Len(objs) + 1 ELSE browsers[bid]
    IN  /\ round_robin_index' = round_robin_index + 1
        /\ dispatched' = Append(dispatched, bid)
        /\ browsers' = IF fresh
                       THEN [b \in DOMAIN browsers \cup {bid} |->
                                IF b = bid THEN o ELSE browsers[b]]
                       ELSE browsers
        /\ EnterWorker(c, s, bid, o, oo)

\* The exit of `async with self._token_semaphore` for a call that entered
\* it on semaphore s; a call on the path without a semaphore (s = 0) has
\* nothing to release.
ReleaseSlot(s) ==
    sems' = IF s = 0 THEN sems ELSE [sems EXCEPT ![s] = @ + 1]

\* The exits of both `async with` blocks of a call that holds them.
ReleaseLocks(c) ==
    /\ objs' = [objs EXCEPT ![call[c].obj].locked = FALSE]
    /\ ReleaseSlot(call[c].sem)

Returned(c, tok, u) ==
    [kind |-> "returned", token |-> tok, browser_id |-> call[c].browser_id, exc |-> None,
     waits |-> WorstWaits(call[c].waits, u)]

Raised(e) ==
    [kind |-> "raised", token |-> None, browser_id |-> NoId, exc |-> e,
     waits |-> "other"]

\* Mutant: gen_fail counts the failed attempts, not the failed call.
ReturnCountsAttempts(c, tok, u) ==
    /\ ReleaseLocks(c)
    /\ stats' = IF tok # None
                THEN [stats EXCEPT !.gen_ok = @ + 1]
                ELSE [stats EXCEPT !.gen_fail = @ + call[c].attempt + 1]
    /\ ret' = [ret EXCEPT ![c] = Returned(c, tok, u)]
    /\ call' = [call EXCEPT ![c] = IdleCall]

\* BrowserCaptchaService.get_token after the `async with`: the counters and
\* the return of (token, browser_id).
Return(c, tok, u) ==
    /\ ReleaseLocks(c)
    /\ stats' = IF tok # None
                THEN [stats EXCEPT !.gen_ok = @ + 1]
                ELSE [stats EXCEPT !.gen_fail = @ + 1]
    /\ ret' = [ret EXCEPT ![c] = Returned(c, tok, u)]
    /\ call' = [call EXCEPT ![c] = IdleCall]

\* Mutant: the pool semaphore is released by hand after the solve, so an
\* exception that leaves the solve skips the release.
RaiseWithoutRelease(c, e) ==
    /\ objs' = [objs EXCEPT ![call[c].obj].locked = FALSE]
    /\ ret' = [ret EXCEPT ![c] = Raised(e)]
    /\ call' = [call EXCEPT ![c] = IdleCall]
    /\ UNCHANGED <<sems, stats>>

\* An exception e leaves TokenBrowser.get_token and then
\* BrowserCaptchaService.get_token: both `async with` blocks release, and
\* the lines after them do not run.
Raise(c, e) ==
    /\ ReleaseLocks(c)
    /\ ret' = [ret EXCEPT ![c] = Raised(e)]
    /\ call' = [call EXCEPT ![c] = IdleCall]
    /\ UNCHANGED stats

\* Mutant: the delay is taken after the last attempt too, and one more
\* attempt follows it.
AttemptEndOffByOne(c, tok, u) ==
    IF tok # None
    THEN Return(c, tok, u)
    ELSE IF call[c].attempt < MAX_RETRIES
    THEN /\ call' = [call EXCEPT ![c].pc = "sleep", ![c].waits = WorstWaits(@, u)]
         /\ UNCHANGED <<objs, sems, stats, ret>>
    ELSE Return(c, None, u)

\* The end of one iteration of the retry loop, after the finally clause: the
\* token is returned, or the loop sleeps before the next attempt, or gives up.
\* u: how the readiness waits of the attempt went.
AttemptEnd(c, tok, u) ==
    IF tok # None
    THEN Return(c, tok, u)
    ELSE IF call[c].attempt < MAX_RETRIES - 1
    THEN /\ call' = [call EXCEPT ![c].pc = "sleep", ![c].waits = WorstWaits(@, u)]
         /\ UNCHANGED <<objs, sems, stats, ret>>
    ELSE Return(c, None, u)

\* An exception e reaches the try statement of TokenBrowser.get_token with
\* the session in state s: `except Exception` counts an error, the finally
\* clause closes what the locals name, and the loop goes on; any other
\* exception leaves the call after the finally clause.
AttemptRaises(c, e, s) ==
    IF GetTokenCatches(e)
    THEN /\ session' = [session EXCEPT ![c] = [CloseBrowser(s) EXCEPT !.ended = "exception"]]
         /\ AttemptEnd(c, None, "other")
    ELSE /\ session' = [session EXCEPT ![c] = [CloseBrowser(s) EXCEPT !.ended = "cancelled"]]
         /\ Raise(c, e)

\* ================================================= one attempt on its page

\* The parameter `action: str = "IMAGE_GENERATION"` of
\* BrowserCaptchaService.get_token: what the body sees for an argument that
\* is omitted ("omitted"), None, "" or a label.
ActionParameter(arg) == IF arg = "omitted" THEN "IMAGE_GENERATION" ELSE arg

\* Python truth of an optional string.
Truthy(s) == s # None /\ s # ""

\* `action = action or self.page_action` on the bound parameter.
ResolveAction(arg, configured) ==
    IF Truthy(ActionParameter(arg)) THEN ActionParameter(arg) ELSE configured

\* The page_action _load_browser_count leaves when the configuration holds
\* label: __init__ has set "IMAGE_GENERATION", a falsy label keeps it.
LoadPageAction(label) == IF Truthy(label) THEN label ELSE "IMAGE_GENERATION"

\* The list s without its falsy entries and its repetitions, in order: the
\* idiom `if x and x not in out: out.append(x)`.
RECURSIVE AppendNew(_, _)
AppendNew(out, s) ==
    IF s = <<>> THEN out
    ELSE AppendNew(IF Truthy(Head(s)) /\ Head(s) \notin {out[i] : i \in 1..Len(out)}
                   THEN Append(out, Head(s)) ELSE out,
                   Tail(s))

\* Mutant: the configured key is tried before the keys of the page.
KeyCandidatesConfiguredFirst(extracted_keys, key) ==
    AppendNew(AppendNew(<<>>, <<key>>), extracted_keys)

\* key_candidates of _execute_captcha: the keys found on the page, then
\* website_key unless it is among them.
KeyCandidates(extracted_keys, key) ==
    LET found == AppendNew(<<>>, extracted_keys)
        all == AppendNew(found, <<key>>)
    IN  IF all = <<>> THEN <<key>> ELSE all

\* action_candidates of _execute_captcha.
ActionCandidates(action) ==
    AppendNew(<<>>, <<action, "IMAGE_GENERATION", "VIDEO_GENERATION",
                      "GENERATE", "GENERATION">>)

\* Mutant: a loader is injected for every key, ready or not.
ReadyLoopInjectsAll(w, keys, i, injected) ==
    [injected |-> keys,
     ready |-> w.present \/ \E k \in 1..Len(keys) : keys[k] \in w.ready_on]

\* The readiness loop over keys from position i on a page w: before each
\* key the runtime is probed; if it is absent a loader is injected for the
\* key and wait_for_function either sees the runtime or times out. The
\* result: the keys a loader was injected for, and whether the loop left
\* with the runtime seen.
RECURSIVE ReadyLoop(_, _, _, _)
ReadyLoop(w, keys, i, injected) ==
    IF i > Len(keys) THEN [injected |-> injected, ready |-> FALSE]
    ELSE IF w.present THEN [injected |-> injected, ready |-> TRUE]
    ELSE IF keys[i] \in w.ready_on
         THEN [injected |-> Append(injected, keys[i]), ready |-> TRUE]
    ELSE ReadyLoop(w, keys, i + 1, Append(injected, keys[i]))

\* Mutant: the wait for the network to be idle has no handler of its own.
NetworkIdleCatchesNothing(e) == FALSE

\* The `except Exception: pass` around page.wait_for_load_state("networkidle").
NetworkIdleCatches(e) == e \in ExceptionSubclasses

\* The navigation block of _execute_captcha on page w: page.goto, the wait
\* for the network to be idle, the pause and the evaluate. FALSE when an
\* exception reaches the block's handler, which returns None.
Navigate(w) ==
    IF ~w.goto THEN FALSE
    ELSE IF ~w.settles THEN NetworkIdleCatches("TimeoutError")
    ELSE TRUE

\* The finally clause of _execute_captcha: `if page: await page.close()`,
\* on every way out once new_page has returned.
PageClosed(page) == page

\* What one execute call resolves to, or how it fails.
Rejected == [type |-> "exception", len |-> 0, key |-> "", action |-> ""]
FailResults ==
    {Rejected,
     [type |-> "null", len |-> 0, key |-> "", action |-> ""],
     [type |-> "int", len |-> 0, key |-> "", action |-> ""],
     [type |-> "str", len |-> 0, key |-> "", action |-> ""],
     [type |-> "str", len |-> PLAUSIBLE_LEN, key |-> "", action |-> ""]}
Minted(k, a) == [type |-> "str", len |-> PLAUSIBLE_LEN + 1, key |-> k, action |-> a]

\* grecaptcha.enterprise.execute(key, {action}) on page w under
\* asyncio.wait_for: with no runtime on the page the call is rejected.
Execute(w, runtime, k, a) ==
    IF ~runtime THEN Rejected
    ELSE IF <<k, a>> \in w.good THEN Minted(k, a)
    ELSE w.other

\* Mutant: a result is accepted from PLAUSIBLE_LEN characters on.
PlausibleFromBound(r) == r.type = "str" /\ r.len >= PLAUSIBLE_LEN

\* `token and isinstance(token, str) and len(token) > 80`
Plausible(r) == r.type = "str" /\ r.len > PLAUSIBLE_LEN

\* Mutant: the loop over the actions is the outer one.
PairsActionMajor(keys, actions) ==
    [n \in 1..(Len(keys) * Len(actions)) |->
        <<keys[((n - 1) % Len(keys)) + 1], actions[((n - 1) \div Len(keys)) + 1]>>]

\* The (key, action) pairs of the two nested loops, in the order they run.
Pairs(keys, actions) ==
    [n \in 1..(Len(keys) * Len(actions)) |->
        <<keys[((n - 1) \div Len(actions)) + 1], actions[((n - 1) % Len(actions)) + 1]>>]

\* The execute loops: the position of the first pair whose result is
\* plausible, 0 if there is none.
FirstPlausible(w, runtime, pairs) ==
    LET hits == {n \in 1..Len(pairs) :
                    Plausible(Execute(w, runtime, pairs[n][1], pairs[n][2]))}
    IN  IF hits = {} THEN 0 ELSE CHOOSE n \in hits : \A m \in hits : n <= m

NoToken == [type |-> "null", len |-> 0, key |-> "", action |-> ""]

\* TokenBrowser._execute_captcha(context, project_id, website_key, action)
\* on a page that behaves as w and raises nothing outside the handlers of
\* the stages: the value returned (NoToken for None) and what was done.
ExecuteCaptcha(w, key, action) ==
    LET keys == KeyCandidates(w.extracted_keys, key)
        actions == ActionCandidates(action)
        ready == ReadyLoop(w, keys, 1, <<>>)
        runtime == ready.ready \/ w.late
        pairs == Pairs(keys, actions)
        hit == FirstPlausible(w, runtime, pairs)
    IN  IF ~Navigate(w)
        THEN [token |-> NoToken, key_candidates |-> <<>>, action_candidates |-> <<>>,
              injected |-> <<>>, unready |-> FALSE, runtime |-> FALSE, tried |-> <<>>,
              closed |-> PageClosed(TRUE)]
        ELSE [closed |-> PageClosed(TRUE),
              token |-> IF hit = 0 THEN NoToken
                        ELSE Execute(w, runtime, pairs[hit][1], pairs[hit][2]),
              key_candidates |-> keys,
              action_candidates |-> actions,
              injected |-> ready.injected,
              unready |-> ~ready.ready,
              runtime |-> runtime,
              tried |-> IF hit = 0 THEN pairs ELSE SubSeq(pairs, 1, hit)]

\* The pages an attempt can meet. ConfiguredKey stands for self.website_key.
ConfiguredKey == "W"
AllKeys == {"K1", "K2", ConfiguredKey}
Labels == {"IMAGE_GENERATION", "VIDEO_GENERATION", "GENERATE", "GENERATION", "CUSTOM"}
ExtractedKeys ==
    {<<>>, <<"K1">>, <<ConfiguredKey>>, <<"K1", ConfiguredKey>>,
     <<ConfiguredKey, "K1">>, <<"K1", "K2">>}

\* A page whose navigation fails: nothing else of it is used.
DeadPage ==
    [goto |-> FALSE, settles |-> FALSE, extracted_keys |-> <<>>, present |-> FALSE, ready_on |-> {},
     late |-> FALSE, good |-> {}, other |-> Rejected]

\* goto: page.goto and the evaluate after it succeed; settles: the network
\* is idle within the bound of wait_for_load_state; extracted_keys: what
\* the key scan returns; present: the runtime is there on arrival; ready_on:
\* the keys whose loader brings the runtime within the bound of the wait;
\* late: the runtime appears after the last wait has timed out; good: the
\* pairs for which execute mints a token; other: what it does for the rest.
Pages ==
    {DeadPage} \cup
    {w \in [goto : {TRUE}, settles : BOOLEAN, extracted_keys : ExtractedKeys, present : BOOLEAN,
            ready_on : SUBSET AllKeys, late : BOOLEAN,
            good : {{}} \cup {{<<k, a>>} : k \in AllKeys, a \in Labels},
            other : FailResults] :
        w.present => (w.ready_on = {} /\ ~w.late)}

\* What an attempt's _execute_captcha hands to TokenBrowser.get_token, as
\* the retry loop sees it: a token or None, and how the readiness waits of
\* the attempt went.
RunOutcomes ==
    {[token |-> IF Plausible(r.token) THEN "token" ELSE None,
      waits |-> IF ~r.unready THEN "other" ELSE IF r.runtime THEN "late" ELSE "never"] :
        r \in {ExecuteCaptcha(w, ConfiguredKey, a) : w \in Pages, a \in Labels}}

\* The arguments a caller can give for `action`, and the page_action the
\* configuration can have left.
ActionArgs == {"omitted", None, "", "VIDEO_GENERATION", "CUSTOM"}
ConfiguredLabels ==
    {LoadPageAction(l) : l \in {None, "", "IMAGE_GENERATION", "VIDEO_GENERATION", "CUSTOM"}}

NoOut ==
    [token |-> NoToken, key_candidates |-> <<>>, action_candidates |-> <<>>,
     injected |-> <<>>, unready |-> FALSE, runtime |-> FALSE, tried |-> <<>>,
     closed |-> FALSE]

NoExec ==
    [pc |-> "none", arg |-> "omitted", configured |-> "IMAGE_GENERATION",
     page |-> DeadPage, action |-> None, out |-> NoOut]

\* BrowserCaptchaService.get_token up to the dispatch: the action it will
\* hand to the worker.
ResolveCall ==
    /\ exec.pc = "call"
    /\ exec' = [exec EXCEPT !.pc = "resolved",
                            !.action = ResolveAction(exec.arg, exec.configured)]
    /\ UNCHANGED <<envvars, poolvars, adminvars, lbvars, proxy>>

\* One _execute_captcha with that action, on the page the attempt meets.
ExecuteCall ==
    /\ exec.pc = "resolved"
    /\ exec' = [exec EXCEPT !.pc = "done",
                            !.out = ExecuteCaptcha(exec.page, ConfiguredKey, exec.action)]
    /\ UNCHANGED <<envvars, poolvars, adminvars, lbvars, proxy>>

\* ------------------------------------------ the proxy of a launch

\* A browser_proxy_url of the configuration: None, the empty string, white
\* space only, or a text made of an optional scheme and "://", optional
\* "user:pass@", a host, ":" and a port, and what follows the port.
NoText == [scheme |-> "", auth |-> "", host |-> "", port |-> "", tail |-> ""]
ProxyUrls ==
    {[kind |-> k, text |-> NoText] : k \in {"none", "empty", "blank"}}
    \cup {[kind |-> "text", text |-> x] :
             x \in [scheme : {"", "http", "https", "socks5", "ftp"},
                    auth : {"", "user:pass"},
                    host : {"", "proxy.example"},
                    port : {"", "8080", "80a"},
                    tail : {"", "/"}]}

\* What _create_browser hands to chromium.launch as proxy=: None (set is
\* FALSE) or the dict parse_proxy_url built.
NoOption ==
    [set |-> FALSE, scheme |-> "", host |-> "", port |-> "", username |-> "",
     password |-> ""]

\* The match of \d+ on a port.
IsDigits(port) == port = "8080"

\* parse_proxy_url(raw_url.strip()): a text that does not start with http,
\* https or socks5 and "://" gets "http://" in front; then the whole must
\* match scheme://[user:pass@]host:port.
ParseProxyUrl(u) ==
    IF u.kind # "text" THEN NoOption
    ELSE LET x == u.text
             known == x.scheme \in {"http", "https", "socks5"}
         IN  IF x.scheme # "" /\ ~known
             THEN NoOption   \* "http://ftp://...": no port after the first colon
             ELSE IF x.host = "" \/ ~IsDigits(x.port) \/ x.tail # ""
             THEN NoOption
             ELSE [set |-> TRUE,
                   scheme |-> IF known THEN x.scheme ELSE "http",
                   host |-> x.host, port |-> x.port,
                   username |-> IF x.auth = "" THEN "" ELSE "user",
                   password |-> IF x.auth = "" THEN "" ELSE "pass"]

\* The proxy block of _create_browser when the TokenBrowser has a db (cfg.db),
\* the configuration read raises or not (cfg.fails) and the configuration
\* holds browser_proxy_enabled and browser_proxy_url: the bare except leaves
\* proxy_option None on any failure.
ProxyOption(cfg) ==
    IF ~cfg.db \/ cfg.fails THEN NoOption
    ELSE IF ~cfg.enabled \/ cfg.url.kind \in {"none", "empty"} THEN NoOption
    ELSE ParseProxyUrl(cfg.url)

ProxyConfigs ==
    [db : BOOLEAN, fails : BOOLEAN, enabled : BOOLEAN, url : ProxyUrls]

NoProxyRun ==
    [pc |-> "none",
     cfg |-> [db |-> FALSE, fails |-> FALSE, enabled |-> FALSE,
              url |-> [kind |-> "none", text |-> NoText]],
     option |-> NoOption]

\* _create_browser from the start of the driver to the proxy block's end.
ReadProxy ==
    /\ proxy.pc = "start"
    /\ proxy' = [proxy EXCEPT !.pc = "read", !.option = ProxyOption(proxy.cfg)]
    /\ UNCHANGED <<envvars, poolvars, adminvars, lbvars, exec>>

\* `await playwright.chromium.launch(headless=IS_DOCKER, proxy=proxy_option,
\* ...)`: the browser starts with that proxy, or the launch raises.
LaunchBrowser ==
    /\ proxy.pc = "read"
    /\ \E ok \in BOOLEAN :
          proxy' = [proxy EXCEPT !.pc = IF ok THEN "launched" ELSE "failed"]
    /\ UNCHANGED <<envvars, poolvars, adminvars, lbvars, exec>>

\* ------------------------------------------------------------- actions

\* Mutant: req_total is counted before _check_available runs.
UnavailableCallCounted(c) ==
    /\ ret' = [ret EXCEPT ![c] = [NoRet EXCEPT !.kind = "raised", !.exc = "RuntimeError"]]
    /\ stats' = [stats EXCEPT !.req_total = IF @ < MaxRequests THEN @ + 1 ELSE @]
    /\ UNCHANGED <<browser_count, round_robin_index, browsers, token_semaphore,
                   sems, objs, call, session, dispatched>>

\* get_token when _check_available raises: RuntimeError reaches the caller.
UnavailableCall(c) ==
    /\ ret' = [ret EXCEPT ![c] = [NoRet EXCEPT !.kind = "raised", !.exc = "RuntimeError"]]
    /\ UNCHANGED <<browser_count, round_robin_index, stats, browsers, token_semaphore,
                   sems, objs, call, session, dispatched>>

\* get_token up to its first suspension when the service is available:
\* req_total, then the pool semaphore if there is one, taken at once when
\* it is free.
AvailableCall(c) ==
    /\ stats.req_total < MaxRequests
    /\ stats' = [stats EXCEPT !.req_total = @ + 1]
    /\ ret' = [ret EXCEPT ![c] = NoRet]
    /\ session' = [session EXCEPT ![c] = NoSession]
    /\ IF token_semaphore = 0
       THEN \* `if self._token_semaphore:` is false: the dispatch is not gated
            /\ UNCHANGED sems
            /\ Dispatch(c, 0)
       ELSE IF SemFree(token_semaphore)
       THEN /\ sems' = [sems EXCEPT ![token_semaphore] = @ - 1]
            /\ Dispatch(c, token_semaphore)
       ELSE /\ call' = [call EXCEPT ![c] = [IdleCall EXCEPT !.pc = "wait_slot",
                                                        !.sem = token_semaphore]]
            /\ UNCHANGED <<round_robin_index, browsers, sems, objs, dispatched>>
    /\ UNCHANGED <<browser_count, token_semaphore>>

\* BrowserCaptchaService.get_token, called by an idle caller.
GetToken(c) ==
    /\ call[c].pc = "idle"
    /\ inst[c] = "has"
    /\ IF CheckAvailable THEN AvailableCall(c) ELSE UnavailableCall(c)
    /\ UNCHANGED <<envvars, adminvars, pagevars, lbvars>>

\* Mutant: a waiter is woken only by the semaphore the pool has now.
AdmitCurrentOnly(c) ==
    /\ call[c].pc = "wait_slot"
    /\ call[c].sem = token_semaphore
    /\ SemFree(call[c].sem)
    /\ sems' = [sems EXCEPT ![call[c].sem] = @ - 1]
    /\ Dispatch(c, call[c].sem)
    /\ UNCHANGED <<browser_count, stats, token_semaphore, session, ret>>
    /\ UNCHANGED <<envvars, adminvars, pagevars, lbvars>>

\* A caller suspended in `async with self._token_semaphore` is woken: the
\* semaphore it waits on, the pool's at the time of its call, has a slot.
Admit(c) ==
    /\ call[c].pc = "wait_slot"
    /\ SemFree(call[c].sem)
    /\ sems' = [sems EXCEPT ![call[c].sem] = @ - 1]
    /\ Dispatch(c, call[c].sem)
    /\ UNCHANGED <<browser_count, stats, token_semaphore, session, ret>>
    /\ UNCHANGED <<envvars, adminvars, pagevars, lbvars>>

\* A caller suspended in `async with self._semaphore` of its worker is woken.
LockWorker(c) ==
    /\ call[c].pc = "wait_worker"
    /\ WorkerFree(call[c].obj, objs)
    /\ objs' = [objs EXCEPT ![call[c].obj].locked = TRUE]
    /\ call' = [call EXCEPT ![c].pc = "start"]
    /\ UNCHANGED <<browser_count, round_robin_index, stats, browsers, token_semaphore,
                   sems, session, ret, dispatched>>
    /\ UNCHANGED <<envvars, adminvars, pagevars, lbvars>>

\* The caller's task is cancelled while it waits for the pool semaphore.
CancelWaitSlot(c) ==
    /\ call[c].pc = "wait_slot"
    /\ call' = [call EXCEPT ![c] = IdleCall]
    /\ ret' = [ret EXCEPT ![c] = Raised("CancelledError")]
    /\ UNCHANGED <<browser_count, round_robin_index, stats, browsers, token_semaphore,
                   sems, objs, session, dispatched>>
    /\ UNCHANGED <<envvars, adminvars, pagevars, lbvars>>

\* The caller's task is cancelled while it waits for its worker's lock: the
\* pool semaphore is released by its `async with`.
CancelWaitWorker(c) ==
    /\ call[c].pc = "wait_worker"
    /\ call' = [call EXCEPT ![c] = IdleCall]
    /\ ret' = [ret EXCEPT ![c] = Raised("CancelledError")]
    /\ ReleaseSlot(call[c].sem)
    /\ UNCHANGED <<browser_count, round_robin_index, stats, browsers, token_semaphore,
                   objs, session, dispatched>>
    /\ UNCHANGED <<envvars, adminvars, pagevars, lbvars>>

\* The variables no step of an attempt changes.
AttemptFrame ==
    /\ UNCHANGED <<browser_count, round_robin_index, browsers, token_semaphore, dispatched>>
    /\ UNCHANGED <<envvars, adminvars, pagevars, lbvars>>

\* A step inside an attempt that goes on: caller c moves to position p with
\* its session in state s.
Goes(c, p, s) ==
    /\ session' = [session EXCEPT ![c] = s]
    /\ call' = [call EXCEPT ![c].pc = p]
    /\ UNCHANGED <<objs, sems, stats, ret>>

\* _create_browser: `await async_playwright().start()` and then
\* Path(user_data_dir).mkdir, both before the function's try statement.
StartPlaywright(c) ==
    /\ call[c].pc = "start"
    /\ AttemptFrame
    /\ \/ Goes(c, "launch", [NoSession EXCEPT !.playwright = TRUE])
       \/ \E e \in BaseExceptions \ {"OSError"} :
             \* start() raises: no driver was started
             AttemptRaises(c, e, NoSession)
       \/ \* start() returned, mkdir raises
          AttemptRaises(c, "OSError", [NoSession EXCEPT !.playwright = TRUE])

\* An exception e raised inside the try statement of _create_browser with
\* the session in state s: `except Exception` stops the driver and re-raises.
CreateBrowserRaises(c, e, s) ==
    AttemptRaises(c, e, IF CreateBrowserCatches(e) THEN PlaywrightStop(s) ELSE s)

\* _create_browser: `await playwright.chromium.launch(...)`.
Launch(c) ==
    /\ call[c].pc = "launch"
    /\ AttemptFrame
    /\ \/ Goes(c, "new_context", [session[c] EXCEPT !.browser = TRUE])
       \/ \E e \in BaseExceptions \ {"OSError"} :
             CreateBrowserRaises(c, e, session[c])

\* _create_browser: `await browser.new_context(...)` and the return of
\* (playwright, browser, context) into get_token's locals.
NewContext(c) ==
    /\ call[c].pc = "new_context"
    /\ AttemptFrame
    /\ \/ Goes(c, "new_page", [session[c] EXCEPT !.context = TRUE, !.bound = TRUE])
       \/ \E e \in BaseExceptions \ {"OSError"} :
             CreateBrowserRaises(c, e, session[c])

\* _execute_captcha returned tok to get_token with the session in state s,
\* after an attempt whose readiness waits went as u:
\* the finally clause's `await self._close_browser(...)`, then the end of
\* the iteration.
Executed(c, tok, u, s) ==
    /\ session' = [session EXCEPT ![c] =
                     [CloseBrowser(s) EXCEPT
                        !.ended = IF tok # None THEN "token" ELSE "absent"]]
    /\ AttemptEnd(c, tok, u)

\* An exception e raised inside the try statement of _execute_captcha with
\* the session in state s (its finally clause has closed the page):
\* `except Exception` turns it into a None result.
ExecuteCaptchaRaises(c, e, s) ==
    IF ExecuteCaptchaCatches(e)
    THEN /\ session' = [session EXCEPT ![c] = [CloseBrowser(s) EXCEPT !.ended = "exception"]]
         /\ AttemptEnd(c, None, "other")
    ELSE AttemptRaises(c, e, s)

\* _execute_captcha: `await context.new_page()`.
NewPage(c) ==
    /\ call[c].pc = "new_page"
    /\ AttemptFrame
    /\ \/ Goes(c, "run", [session[c] EXCEPT !.page = TRUE])
       \/ \E e \in BaseExceptions \ {"OSError"} :
             ExecuteCaptchaRaises(c, e, session[c])

\* _execute_captcha on its page: navigation, key discovery, the execute
\* calls; its finally clause closes the page on every way out.
Run(c) ==
    /\ call[c].pc = "run"
    /\ AttemptFrame
    /\ LET s == [session[c] EXCEPT !.page = FALSE]
       IN  \/ \E o \in RunOutcomes : Executed(c, o.token, o.waits, s)
           \/ \E e \in BaseExceptions \ {"OSError"} : ExecuteCaptchaRaises(c, e, s)

\* `await asyncio.sleep(1)` between two attempts.
Sleep(c) ==
    /\ call[c].pc = "sleep"
    /\ AttemptFrame
    /\ \/ /\ call' = [call EXCEPT ![c].pc = "start", ![c].attempt = @ + 1]
          /\ session' = [session EXCEPT ![c] = NoSession]
          /\ UNCHANGED <<objs, sems, stats, ret>>
       \/ /\ Raise(c, "CancelledError")
          /\ UNCHANGED session

\* ------------------------------------------- reconfiguration and reports

IdleReload == [pc |-> "idle", old_count |-> 0]

\* The reloads begun so far: each finished one has made a semaphore.
ReloadsBegun ==
    (Len(sems) - 1) + Cardinality({r \in Reloaders : reload[r].pc = "reading"})

\* Mutant: the loop also drops the last id below the new count.
DropExcessInclusive(bs, n) == [b \in {i \in DOMAIN bs : i < n - 1} |-> bs[b]]

\* self._browsers without the ids that are not below n: the loop of
\* reload_browser_count over list(self._browsers.keys()).
DropExcess(bs, n) == [b \in {i \in DOMAIN bs : i < n} |-> bs[b]]

\* _load_browser_count after its configuration read did cfg: the count, and
\* a new Semaphore(count) in place of the old one, whoever holds or awaits
\* the old one.
LoadFinish(cfg) ==
    /\ browser_count' = LoadBrowserCount(cfg)
    /\ sems' = Append(sems, LoadBrowserCount(cfg))
    /\ token_semaphore' = Len(sems) + 1

\* reload_browser_count after _load_browser_count returned, for a caller
\* that read old_count before it: there is no suspension between the two
\* (self._browsers_lock is never held across an await, so it is free).
ReloadShrink(old_count) ==
    browsers' = IF browser_count' < old_count
                THEN DropExcess(browsers, browser_count')
                ELSE browsers

\* The variables no reload, report or removal changes.
AdminFrame ==
    /\ UNCHANGED <<round_robin_index, objs, call, session, ret, dispatched>>
    /\ UNCHANGED <<db, got, inst>>
    /\ UNCHANGED <<envvars, pagevars, lbvars>>

\* reload_browser_count up to its first suspension: old_count, then the
\* configuration read. Without a db nothing is awaited and the call runs
\* to its end at once.
ReloadBegin(r) ==
    /\ reload[r].pc = "idle"
    /\ ReloadsBegun < MaxReloads
    /\ AdminFrame
    /\ UNCHANGED stats
    /\ IF db
       THEN /\ reload' = [reload EXCEPT ![r] = [pc |-> "reading",
                                                old_count |-> browser_count]]
            /\ UNCHANGED <<browser_count, sems, token_semaphore, browsers>>
       ELSE /\ LoadFinish([db |-> FALSE, fails |-> FALSE, browser_count |-> 0])
            /\ ReloadShrink(browser_count)
            /\ UNCHANGED reload

\* reload_browser_count from the return of the configuration read to its end.
ReloadFinish(r) ==
    /\ reload[r].pc = "reading"
    /\ AdminFrame
    /\ UNCHANGED stats
    /\ \E cfg \in {k \in ConfigReads : k.db} : LoadFinish(cfg)
    /\ ReloadShrink(reload[r].old_count)
    /\ reload' = [reload EXCEPT ![r] = IdleReload]

\* BrowserCaptchaService.remove_browser(browser_id)
RemoveBrowser(b) ==
    /\ b \in DOMAIN browsers
    /\ browsers' = [i \in DOMAIN browsers \ {b} |-> browsers[i]]
    /\ AdminFrame
    /\ UNCHANGED <<browser_count, sems, token_semaphore, stats, reload>>

\* Mutant: close also rewinds the round robin.
CloseResetsIndex ==
    /\ browsers # <<>>
    /\ browsers' = <<>>
    /\ round_robin_index' = 0
    /\ UNCHANGED <<objs, call, session, ret, dispatched>>
    /\ UNCHANGED <<db, got, inst>>
    /\ UNCHANGED <<envvars, pagevars, lbvars>>
    /\ UNCHANGED <<browser_count, sems, token_semaphore, stats, reload>>

\* Mutant: close also clears the counters.
CloseResetsStats ==
    /\ browsers # <<>>
    /\ browsers' = <<>>
    /\ stats' = [k \in DOMAIN stats |-> 0]
    /\ UNCHANGED <<round_robin_index, objs, call, session, ret, dispatched>>
    /\ UNCHANGED <<db, got, inst>>
    /\ UNCHANGED <<envvars, pagevars, lbvars>>
    /\ UNCHANGED <<browser_count, sems, token_semaphore, reload>>

\* BrowserCaptchaService.close()
Close ==
    /\ browsers # <<>>
    /\ browsers' = <<>>
    /\ AdminFrame
    /\ UNCHANGED <<browser_count, sems, token_semaphore, stats, reload>>

\* Mutant: the reported worker is dropped so that it is rebuilt.
ReportErrorRecycles(b) ==
    /\ stats.api_403 < MaxReports
    /\ stats' = [stats EXCEPT !.api_403 = @ + 1]
    /\ browsers' = [i \in DOMAIN browsers \ {b} |-> browsers[i]]
    /\ AdminFrame
    /\ UNCHANGED <<browser_count, sems, token_semaphore, reload>>

\* BrowserCaptchaService.report_error(browser_id): b is an id or NoId.
ReportError(b) ==
    /\ stats.api_403 < MaxReports
    /\ stats' = [stats EXCEPT !.api_403 = @ + 1]
    /\ AdminFrame
    /\ UNCHANGED <<browser_count, sems, token_semaphore, browsers, reload>>

\* Mutant: the difference as it comes, without the floor.
ValidSuccessUnfloored(s) == s.gen_ok - s.api_403

\* valid_success of _log_stats: gen_ok less api_403, 0 when that is negative.
ValidSuccess(s) ==
    IF s.gen_ok - s.api_403 < 0 THEN 0 ELSE s.gen_ok - s.api_403

\* rate of _log_stats on the counters s, the float valid_success / total * 100
\* as an exact fraction num / den; 0.0 when total is 0.
LogStats(s) ==
    IF s.req_total > 0
    THEN [valid_success |-> ValidSuccess(s),
          rate |-> [num |-> ValidSuccess(s) * 100, den |-> s.req_total]]
    ELSE [valid_success |-> ValidSuccess(s), rate |-> [num |-> 0, den |-> 1]]

NoStats ==
    [called |-> FALSE, total_solve_count |-> 0, total_error_count |-> 0,
     risk_403_count |-> 0, browser_count |-> 0, configured_browser_count |-> 0,
     browsers |-> <<>>]

\* BrowserCaptchaService.get_stats(): the dict it returns.
GetStats ==
    [called |-> TRUE,
     total_solve_count |-> stats.gen_ok,
     total_error_count |-> stats.gen_fail,
     risk_403_count |-> stats.api_403,
     browser_count |-> Cardinality(DOMAIN browsers),
     configured_browser_count |-> browser_count,
     browsers |-> <<>>]

\* A call of get_stats.
GetStatsCall ==
    /\ got' = GetStats
    /\ UNCHANGED <<envvars, poolvars, pagevars, lbvars>>
    /\ UNCHANGED <<db, reload, inst>>

\* Mutant: get_instance without the tests of cls._instance.
GetInstanceNoCheck(c) ==
    /\ inst[c] = "none"
    /\ UNCHANGED <<round_robin_index, stats, browsers, objs, call, session, ret,
                   dispatched>>
    /\ UNCHANGED <<db, reload, got>>
    /\ UNCHANGED <<envvars, pagevars, lbvars>>
    /\ IF db
       THEN /\ inst' = [inst EXCEPT ![c] = "loading"]
            /\ UNCHANGED <<browser_count, sems, token_semaphore>>
       ELSE /\ inst' = [inst EXCEPT ![c] = "has"]
            /\ LoadFinish([db |-> FALSE, fails |-> FALSE, browser_count |-> 0])

\* BrowserCaptchaService.get_instance(db), called by a caller that has no
\* instance yet. When cls._instance is set the call returns it without
\* suspending. Otherwise cls._lock is free (its holder sets cls._instance
\* before its first suspension, so no caller ever waits for it): the
\* instance is made and stored, and _load_browser_count runs, suspending in
\* the configuration read when there is a db.
GetInstance(c) ==
    /\ inst[c] = "none"
    /\ UNCHANGED <<round_robin_index, stats, browsers, objs, call, session, ret,
                   dispatched>>
    /\ UNCHANGED <<db, reload, got>>
    /\ UNCHANGED <<envvars, pagevars, lbvars>>
    /\ IF \E d \in Callers : inst[d] # "none"
       THEN /\ inst' = [inst EXCEPT ![c] = "has"]
            /\ UNCHANGED <<browser_count, sems, token_semaphore>>
       ELSE IF db
       THEN /\ inst' = [inst EXCEPT ![c] = "loading"]
            /\ UNCHANGED <<browser_count, sems, token_semaphore>>
       ELSE /\ inst' = [inst EXCEPT ![c] = "has"]
            /\ LoadFinish([db |-> FALSE, fails |-> FALSE, browser_count |-> 0])

\* get_instance from the return of the configuration read to its return.
InstanceLoaded(c) ==
    /\ inst[c] = "loading"
    /\ UNCHANGED <<round_robin_index, stats, browsers, objs, call, session, ret,
                   dispatched>>
    /\ UNCHANGED <<db, reload, got>>
    /\ UNCHANGED <<envvars, pagevars, lbvars>>
    /\ \E cfg \in {k \in ConfigReads : k.db} : LoadFinish(cfg)
    /\ inst' = [inst EXCEPT ![c] = "has"]

\* ===================================================== the load balancer

\* An account that is not active.
InactiveToken ==
    [is_active |-> FALSE, at_valid |-> FALSE, image_enabled |-> FALSE,
     video_enabled |-> FALSE]

\* token_manager.get_active_tokens(): the snapshot of the active accounts,
\* in id order.
GetActiveTokens ==
    SelectSeq([i \in 1..NumTokens |-> i], LAMBDA t : tokens[t].is_active)

\* token_manager.is_at_valid(token.id)
IsAtValid(t) == tokens[t].at_valid

\* concurrency_manager.can_use_image(token.id) and can_use_video(token.id)
CanUseImage(t) == t \notin image_full
CanUseVideo(t) == t \notin video_full

\* Mutant: the video filter is an elif of the image filter, so it is skipped
\* when both kinds are required.
FilterReasonElif(t, for_image_generation, for_video_generation) ==
    IF ~IsAtValid(t) THEN "at_invalid"
    ELSE IF for_image_generation /\ ~tokens[t].image_enabled THEN "image_disabled"
    ELSE IF for_image_generation /\ concurrency_manager /\ ~CanUseImage(t)
         THEN "image_concurrency_full"
    ELSE IF ~for_image_generation /\ for_video_generation /\ ~tokens[t].video_enabled
         THEN "video_disabled"
    ELSE IF ~for_image_generation /\ for_video_generation /\ concurrency_manager
            /\ ~CanUseVideo(t)
         THEN "video_concurrency_full"
    ELSE "ok"

\* Mutant: no `continue` after a failed check, so a later failed check
\* writes its reason over the earlier one.
FilterReasonLast(t, for_image_generation, for_video_generation) ==
    IF for_video_generation /\ tokens[t].video_enabled /\ concurrency_manager
          /\ ~CanUseVideo(t)
    THEN "video_concurrency_full"
    ELSE IF for_video_generation /\ ~tokens[t].video_enabled THEN "video_disabled"
    ELSE IF for_image_generation /\ tokens[t].image_enabled /\ concurrency_manager
            /\ ~CanUseImage(t)
         THEN "image_concurrency_full"
    ELSE IF for_image_generation /\ ~tokens[t].image_enabled THEN "image_disabled"
    ELSE IF ~IsAtValid(t) THEN "at_invalid"
    ELSE "ok"

\* The body of select_token's loop for one token of the snapshot: the reason
\* recorded when the token is dropped, "ok" when it is appended to
\* available_tokens. Each check runs only if the ones before it passed.
FilterReason(t, for_image_generation, for_video_generation) ==
    IF ~IsAtValid(t) THEN "at_invalid"
    ELSE IF for_image_generation /\ ~tokens[t].image_enabled THEN "image_disabled"
    ELSE IF for_image_generation /\ concurrency_manager /\ ~CanUseImage(t)
         THEN "image_concurrency_full"
    ELSE IF for_video_generation /\ ~tokens[t].video_enabled THEN "video_disabled"
    ELSE IF for_video_generation /\ concurrency_manager /\ ~CanUseVideo(t)
         THEN "video_concurrency_full"
    ELSE "ok"

\* The checks the loop body evaluates for one token, in the order it
\* evaluates them: each `continue` skips the rest, a kind that is not
\* required is not looked at, and `self.concurrency_manager and ...` asks
\* the ledger only when there is a concurrency manager.
ChecksEvaluated(t, for_image_generation, for_video_generation) ==
    LET image == IF ~for_image_generation THEN <<>>
                 ELSE IF ~tokens[t].image_enabled THEN <<"image_enabled">>
                 ELSE IF ~concurrency_manager THEN <<"image_enabled">>
                 ELSE <<"image_enabled", "can_use_image">>
        image_ok == \/ ~for_image_generation
                    \/ /\ tokens[t].image_enabled
                       /\ ~(concurrency_manager /\ ~CanUseImage(t))
        video == IF ~for_video_generation THEN <<>>
                 ELSE IF ~tokens[t].video_enabled THEN <<"video_enabled">>
                 ELSE IF ~concurrency_manager THEN <<"video_enabled">>
                 ELSE <<"video_enabled", "can_use_video">>
    IN  IF ~IsAtValid(t) THEN <<"is_at_valid">>
        ELSE IF ~image_ok THEN <<"is_at_valid">> \o image
        ELSE <<"is_at_valid">> \o image \o video

\* Mutant: the loop breaks at the first token it drops instead of going on.
AvailableTokensBreak(active_tokens, fi, fv) ==
    LET bad == {n \in 1..Len(active_tokens) :
                   FilterReason(active_tokens[n], fi, fv) # "ok"}
        first == IF bad = {} THEN Len(active_tokens) + 1
                 ELSE CHOOSE n \in bad : \A m \in bad : n <= m
    IN  SubSeq(active_tokens, 1, first - 1)

\* available_tokens after the loop over the snapshot.
AvailableTokens(active_tokens, fi, fv) ==
    SelectSeq(active_tokens, LAMBDA t : FilterReason(t, fi, fv) = "ok")

\* filtered_reasons after the loop over the snapshot.
FilteredReasons(active_tokens, fi, fv) ==
    [t \in {active_tokens[k] : k \in {n \in 1..Len(active_tokens) :
                FilterReason(active_tokens[n], fi, fv) # "ok"}} |->
        FilterReason(t, fi, fv)]

\* What select_token can return for available_tokens: None (0) when the
\* list is empty, else random.choice of it.
Choices(available_tokens) ==
    IF Len(available_tokens) = 0 THEN {0}
    ELSE {available_tokens[k] : k \in 1..Len(available_tokens)}

\* Mutant: the selection deactivates the accounts whose credential is invalid.
SelectEffectsDeactivate ==
    /\ tokens' = [t \in TokenIds |->
                     IF tokens[t].is_active /\ ~tokens[t].at_valid
                     THEN InactiveToken ELSE tokens[t]]
    /\ UNCHANGED <<image_full, video_full, concurrency_manager>>

\* What select_token does to the token manager and the concurrency manager:
\* it calls get_active_tokens, is_at_valid, can_use_image and can_use_video
\* only, and takes no slot of the ledger.
SelectEffects ==
    UNCHANGED <<tokens, image_full, video_full, concurrency_manager>>

NoSelect ==
    [pc |-> "idle", for_image |-> FALSE, for_video |-> FALSE, active_tokens |-> <<>>,
     available_tokens |-> <<>>, filtered_reasons |-> <<>>, evaluated |-> <<>>,
     selected |-> 0]

\* LoadBalancer.select_token(for_image_generation, for_video_generation) on
\* a snapshot that does not change while the call runs.
SelectToken(fi, fv) ==
    LET active == GetActiveTokens
        available == IF Len(active) = 0 THEN <<>> ELSE AvailableTokens(active, fi, fv)
        reasons == IF Len(active) = 0 THEN <<>> ELSE FilteredReasons(active, fi, fv)
    IN  /\ lb.pc = "idle"   \* a later call reads nothing of an earlier one
        /\ \E sel \in Choices(available) :
              lb' = [pc |-> "done", for_image |-> fi, for_video |-> fv,
                     active_tokens |-> active, available_tokens |-> available,
                     filtered_reasons |-> reasons,
                     evaluated |-> [t \in {active[k] : k \in 1..Len(active)} |->
                                       ChecksEvaluated(t, fi, fv)],
                     selected |-> sel]
        /\ SelectEffects
        /\ UNCHANGED sels
        /\ UNCHANGED <<envvars, poolvars, adminvars, pagevars>>

\* A select_token call that has not begun.
NoSel ==
    [pc |-> "idle", for_image |-> FALSE, for_video |-> FALSE, active_tokens |-> <<>>,
     i |-> 0, available_tokens |-> <<>>, selected |-> 0, at_ceiling |-> FALSE]

\* Mutant: the selection takes a slot of the account it returns.
ChoiceEffectsReserve(sel, fi, fv) ==
    /\ image_full' = IF sel # 0 /\ fi THEN image_full \cup {sel} ELSE image_full
    /\ video_full' = IF sel # 0 /\ fv THEN video_full \cup {sel} ELSE video_full
    /\ UNCHANGED <<tokens, concurrency_manager>>

\* What the end of select_token does to the ledger for the account sel it
\* returns: random.choice and `return selected`, no call of the concurrency
\* manager.
ChoiceEffects(sel, fi, fv) ==
    UNCHANGED <<tokens, image_full, video_full, concurrency_manager>>

\* select_token of caller s up to the loop: the snapshot of the active
\* accounts, and None at once when it is empty.
SelectBegin(s, fi, fv) ==
    LET active == GetActiveTokens
    IN  /\ sels[s].pc = "idle"
        /\ sels' = [sels EXCEPT ![s] =
                       [NoSel EXCEPT !.pc = IF Len(active) = 0 THEN "done" ELSE "loop",
                                     !.for_image = fi, !.for_video = fv,
                                     !.active_tokens = active, !.i = 1]]
        /\ SelectEffects
        /\ UNCHANGED lb
        /\ UNCHANGED <<envvars, poolvars, adminvars, pagevars>>

\* One turn of the loop of caller s: the checks of the next account of its
\* snapshot against the accounts and the ledger as they are now. Nothing is
\* awaited after the checks of the last account, so that turn runs on to
\* random.choice and the return. at_ceiling observes the ledger at the
\* return: whether the account returned is at a ceiling the call required.
SelectTurn(s) ==
    LET r == sels[s]
        t == r.active_tokens[r.i]
        available == IF FilterReason(t, r.for_image, r.for_video) = "ok"
                     THEN Append(r.available_tokens, t)
                     ELSE r.available_tokens
    IN  /\ r.pc = "loop"
        /\ UNCHANGED lb
        /\ UNCHANGED <<envvars, poolvars, adminvars, pagevars>>
        /\ IF r.i < Len(r.active_tokens)
           THEN /\ sels' = [sels EXCEPT ![s] =
                               [r EXCEPT !.i = r.i + 1, !.available_tokens = available]]
                /\ SelectEffects
           ELSE \E sel \in Choices(available) :
                   /\ sels' = [sels EXCEPT ![s] =
                                  [r EXCEPT !.pc = "done", !.i = r.i + 1,
                                            !.available_tokens = available,
                                            !.selected = sel,
                                            !.at_ceiling =
                                               /\ sel # 0
                                               /\ \/ r.for_image /\ ~CanUseImage(sel)
                                                  \/ r.for_video /\ ~CanUseVideo(sel)]]
                   /\ ChoiceEffects(sel, r.for_image, r.for_video)

\* The concurrency manager when a generation that starts on account t takes
\* the last image slot, or the last video slot, of the account.
ImageCeilingReached(t) ==
    /\ concurrency_manager
    /\ tokens[t].is_active
    /\ t \notin image_full
    /\ image_full' = image_full \cup {t}
    /\ UNCHANGED <<tokens, video_full, concurrency_manager, lb, sels>>
    /\ UNCHANGED <<envvars, poolvars, adminvars, pagevars>>

VideoCeilingReached(t) ==
    /\ concurrency_manager
    /\ tokens[t].is_active
    /\ t \notin video_full
    /\ video_full' = video_full \cup {t}
    /\ UNCHANGED <<tokens, image_full, concurrency_manager, lb, sels>>
    /\ UNCHANGED <<envvars, poolvars, adminvars, pagevars>>

\* ------------------------------------------------------ specification

ZeroStats == [req_total |-> 0, gen_ok |-> 0, gen_fail |-> 0, api_403 |-> 0]

\* The load balancer's variables while only the pool runs.
LBQuiet ==
    /\ tokens = [t \in TokenIds |-> InactiveToken]
    /\ image_full = {}
    /\ video_full = {}
    /\ concurrency_manager = FALSE
    /\ lb = NoSelect
    /\ sels = [s \in Selectors |-> NoSel]

\* The module-level flags after import: playwright is imported only when
\* browser captcha is not disabled in Docker.
EnvInit ==
    /\ IS_DOCKER \in BOOLEAN
    /\ ALLOW_DOCKER_BROWSER_CAPTCHA \in BOOLEAN
    /\ PLAYWRIGHT_AVAILABLE \in BOOLEAN
    /\ (IS_DOCKER /\ ~ALLOW_DOCKER_BROWSER_CAPTCHA) => ~PLAYWRIGHT_AVAILABLE

\* The pool after get_instance: __init__, then _load_browser_count with the
\* configuration read doing cfg.
PoolInit ==
    /\ db \in BOOLEAN
    /\ \E cfg \in ConfigReads : cfg.db = db /\ browser_count = LoadBrowserCount(cfg)
    /\ round_robin_index = 0
    /\ stats = ZeroStats
    /\ browsers = <<>>
    /\ token_semaphore = 1
    /\ sems = <<browser_count>>
    /\ objs = <<>>
    /\ call = [c \in Callers |-> IdleCall]
    /\ session = [c \in Callers |-> NoSession]
    /\ ret = [c \in Callers |-> NoRet]
    /\ dispatched = <<>>
    /\ reload = [r \in Reloaders |-> IdleReload]
    /\ got = NoStats
    /\ inst = [c \in Callers |-> "has"]

Init == EnvInit /\ PoolInit /\ LBQuiet /\ exec = NoExec /\ proxy = NoProxyRun

Next ==
    \E c \in Callers :
        \/ GetToken(c)
        \/ Admit(c)
        \/ LockWorker(c)
        \/ CancelWaitSlot(c)
        \/ CancelWaitWorker(c)
        \/ StartPlaywright(c)
        \/ Launch(c)
        \/ NewContext(c)
        \/ NewPage(c)
        \/ Run(c)
        \/ Sleep(c)

\* The pool with its configuration loaded once and never reloaded.
Spec == Init /\ [][Next]_vars

\* The behaviours the two reconfiguration specifications follow: no
\* automation step raises, no solve is cancelled, and the widget runtime is
\* ready in every attempt. Callers still queue, solves still fail and retry.
Calm ==
    \A c \in Callers :
        /\ session[c].ended \notin {"exception", "cancelled"}
        /\ ret[c].waits = "other"
        /\ call[c].waits # "other" => (call[c].attempt = 0 /\ call[c].pc # "sleep")

Reloads == \E r \in Reloaders : ReloadBegin(r) \/ ReloadFinish(r)

\* The initialised pool of a process that runs outside a container with
\* playwright installed.
InitR ==
    /\ Init
    /\ ~IS_DOCKER /\ ~ALLOW_DOCKER_BROWSER_CAPTCHA /\ PLAYWRIGHT_AVAILABLE

NextR == (Next /\ stats'.req_total <= MaxReloadRequests /\ Calm') \/ Reloads

\* The pool under reload_browser_count, on a backend that is available.
SpecR == InitR /\ [][NextR]_vars

Admin ==
    \/ Reloads
    \/ \E b \in BrowserIds : RemoveBrowser(b)
    \/ Close
    \/ \E b \in (0..MaxBrowsers) \cup {NoId} : ReportError(b)

NextA == (Next /\ stats'.req_total <= MaxAdminRequests /\ Calm') \/ Admin

\* The pool under reload_browser_count, remove_browser, close and
\* report_error, on a backend that is available.
SpecA == InitR /\ [][NextA]_vars

\* What the scheduler owes a get_token coroutine that is not idle: a waiter
\* whose semaphore or lock is free is woken, and every await of an attempt
\* comes back (each stage has a timeout).
Progress(c) ==
    /\ \/ Admit(c)
       \/ LockWorker(c)
       \/ StartPlaywright(c)
       \/ Launch(c)
       \/ NewContext(c)
       \/ NewPage(c)
       \/ Run(c)
       \/ Sleep(c)
    /\ Calm'

NextL == (Next /\ stats'.req_total <= MaxLiveRequests /\ Calm') \/ Reloads

\* The pool under reload_browser_count with a fair event loop.
SpecL ==
    /\ InitR
    /\ [][NextL]_vars
    /\ \A c \in Callers : WF_vars(Progress(c))

\* The process before the first get_instance call: no instance, and what
\* __init__ will set (count 1, no semaphore) in the instance's place.
InitG ==
    /\ IS_DOCKER = FALSE /\ ALLOW_DOCKER_BROWSER_CAPTCHA = FALSE
    /\ PLAYWRIGHT_AVAILABLE = TRUE
    /\ db \in BOOLEAN
    /\ browser_count = 1
    /\ round_robin_index = 0
    /\ stats = ZeroStats
    /\ browsers = <<>>
    /\ token_semaphore = 0
    /\ sems = <<>>
    /\ objs = <<>>
    /\ call = [c \in Callers |-> IdleCall]
    /\ session = [c \in Callers |-> NoSession]
    /\ ret = [c \in Callers |-> NoRet]
    /\ dispatched = <<>>
    /\ reload = [r \in Reloaders |-> IdleReload]
    /\ got = NoStats
    /\ inst = [c \in Callers |-> "none"]
    /\ exec = NoExec
    /\ proxy = NoProxyRun
    /\ LBQuiet

Instances == \E c \in Callers : GetInstance(c) \/ InstanceLoaded(c)

NextG == (Next /\ stats'.req_total <= MaxReloadRequests /\ Calm') \/ Instances

\* Callers that fetch the pool with get_instance and then call get_token.
SpecG == InitG /\ [][NextG]_vars

\* The pool's variables while only the load balancer runs.
PoolQuiet ==
    /\ IS_DOCKER = FALSE
    /\ ALLOW_DOCKER_BROWSER_CAPTCHA = TRUE
    /\ PLAYWRIGHT_AVAILABLE = TRUE
    /\ browser_count = 1
    /\ db = FALSE
    /\ PoolInit

\* The accounts and the ledger select_token can meet. The fields of an
\* inactive account are never read, and there is no ledger without a
\* concurrency manager: one representative of each.
InitLB ==
    /\ PoolQuiet
    /\ tokens \in [TokenIds -> [is_active : BOOLEAN, at_valid : BOOLEAN,
                                image_enabled : BOOLEAN, video_enabled : BOOLEAN]]
    /\ \A t \in TokenIds : ~tokens[t].is_active => tokens[t] = InactiveToken
    /\ concurrency_manager \in BOOLEAN
    /\ image_full \in SUBSET {t \in TokenIds : tokens[t].is_active /\ concurrency_manager}
    /\ video_full \in SUBSET {t \in TokenIds : tokens[t].is_active /\ concurrency_manager}
    /\ lb = NoSelect
    /\ sels = [s \in Selectors |-> NoSel]
    /\ exec = NoExec
    /\ proxy = NoProxyRun

NextLB == \E fi \in BOOLEAN, fv \in BOOLEAN : SelectToken(fi, fv)

\* One load balancer over every account directory and ledger.
SpecLB == InitLB /\ [][NextLB]_vars

\* Accounts that are valid and enabled for both kinds, some of them active,
\* and the ledger they can have: what the concurrent calls differ on is the
\* ledger alone.
InitC ==
    /\ PoolQuiet
    /\ tokens \in [TokenIds -> {InactiveToken,
                                 [is_active |-> TRUE, at_valid |-> TRUE,
                                  image_enabled |-> TRUE, video_enabled |-> TRUE]}]
    /\ concurrency_manager \in BOOLEAN
    /\ image_full \in SUBSET {t \in TokenIds : tokens[t].is_active /\ concurrency_manager}
    /\ video_full \in SUBSET {t \in TokenIds : tokens[t].is_active /\ concurrency_manager}
    /\ lb = NoSelect
    /\ sels = [s \in Selectors |-> NoSel]
    /\ exec = NoExec
    /\ proxy = NoProxyRun

NextC ==
    \/ \E s \in Selectors, fi \in BOOLEAN, fv \in BOOLEAN : SelectBegin(s, fi, fv)
    \/ \E s \in Selectors : SelectTurn(s)
    \/ \E t \in TokenIds : ImageCeilingReached(t)
    \/ \E t \in TokenIds : VideoCeilingReached(t)

\* select_token calls that run at once, while generations start.
SpecC == InitC /\ [][NextC]_vars

\* One launch looked at alone, over every proxy configuration.
InitP ==
    /\ PoolQuiet
    /\ LBQuiet
    /\ exec = NoExec
    /\ proxy \in [pc : {"start"}, cfg : ProxyConfigs, option : {NoOption}]

NextP == ReadProxy \/ LaunchBrowser

SpecP == InitP /\ [][NextP]_vars

\* One call looked at alone, over every argument, configured label and page.
InitX ==
    /\ PoolQuiet
    /\ LBQuiet
    /\ exec \in [pc : {"call"}, arg : ActionArgs, configured : ConfiguredLabels,
                 page : Pages, action : {None}, out : {NoOut}]
    /\ proxy = NoProxyRun

NextX == ResolveCall \/ ExecuteCall

SpecX == InitX /\ [][NextX]_vars

\* The counters and workers a pool at rest can show to get_stats.
InitS ==
    /\ IS_DOCKER = FALSE
    /\ ALLOW_DOCKER_BROWSER_CAPTCHA = FALSE
    /\ PLAYWRIGHT_AVAILABLE = TRUE
    /\ db = TRUE
    /\ browser_count \in 1..MaxBrowsers
    /\ stats \in [req_total : 0..MaxRequests, gen_ok : 0..MaxRequests,
                  gen_fail : 0..MaxRequests, api_403 : 0..MaxReports]
    /\ stats.gen_ok + stats.gen_fail <= stats.req_total
    /\ round_robin_index = stats.req_total
    /\ \E n \in 0..browser_count :
          /\ n <= stats.req_total
          /\ browsers = [b \in 0..(n - 1) |-> b + 1]
          /\ objs = [o \in 1..n |-> NewTokenBrowser(o - 1)]
    /\ dispatched = [k \in 1..stats.req_total |-> (k - 1) % browser_count]
    /\ token_semaphore = 1
    /\ sems = <<browser_count>>
    /\ call = [c \in Callers |-> IdleCall]
    /\ session = [c \in Callers |-> NoSession]
    /\ ret = [c \in Callers |-> NoRet]
    /\ reload = [r \in Reloaders |-> IdleReload]
    /\ got = NoStats
    /\ inst = [c \in Callers |-> "has"]
    /\ exec = NoExec
    /\ proxy = NoProxyRun
    /\ LBQuiet

NextS ==
    \/ GetStatsCall
    \/ \E b \in (0..MaxBrowsers) \cup {NoId} : ReportError(b)

\* get_stats and report_error on a pool at rest.
SpecS == InitS /\ [][NextS]_vars

TypeOK ==
    /\ browser_count \in 1..MaxBrowsers
    /\ \A c \in Callers : call[c].pc \in {"idle", "wait_slot"} \cup AdmittedPcs
    /\ \A c \in Callers : call[c].attempt \in 0..(MAX_RETRIES - 1)

\* ============================================================== claims

\* The callers between the acquisition and the release of the pool semaphore,
\* and those running TokenBrowser.get_token's retry loop.
SlotHolders == {c \in Callers : call[c].pc \in AdmittedPcs}
InFlightSolves == {c \in Callers : call[c].pc \in SolvePcs}

\* C1: on an initialised pool that is never reloaded, the callers holding an
\* admission slot, and so the solves in flight, never exceed browser_count.
C1_AdmissionBound ==
    /\ Cardinality(SlotHolders) <= browser_count
    /\ Cardinality(InFlightSolves) <= browser_count

\* C1 witness: the pool is full and a further caller waits for a slot.
C1_Witness ==
    /\ Cardinality(InFlightSolves) = browser_count
    /\ \E c \in Callers : call[c].pc = "wait_slot"

\* C2: no two solves run at once on one worker object: the retry loop, with
\* every launch and teardown, runs under the worker's lock.
C2_WorkerExclusive ==
    \A o \in 1..Len(objs) :
        /\ Cardinality({c \in InFlightSolves : call[c].obj = o}) <= 1
        /\ (\E c \in InFlightSolves : call[c].obj = o) => objs[o].locked

\* C2 witness: a caller holding a slot waits for the lock of a worker that
\* another caller's attempt is using.
C2_Witness ==
    \E c \in Callers, d \in Callers :
        /\ call[c].pc = "wait_worker"
        /\ call[d].pc \in AttemptPcs
        /\ call[d].obj = call[c].obj
        /\ Live(session[d]) # {}

\* The number of dispatches i..j that were assigned id b.
Assigned(b, i, j) == Cardinality({k \in i..j : dispatched[k] = b})

\* C3: with no reconfiguration the k-th dispatch (from 0) gets id
\* k mod browser_count; so in any N consecutive dispatches each id is assigned
\* floor(N/browser_count) or ceil(N/browser_count) times, and with two
\* workers the first five dispatches are 0,1,0,1,0.
C3_RoundRobin ==
    /\ \A k \in 1..Len(dispatched) : dispatched[k] = (k - 1) % browser_count
    /\ \A i \in 1..Len(dispatched) : \A j \in i..Len(dispatched) :
          \A b \in 0..(browser_count - 1) :
             \/ Assigned(b, i, j) = (j - i + 1) \div browser_count
             \/ Assigned(b, i, j) = (j - i + browser_count) \div browser_count
    /\ (browser_count = 2 /\ Len(dispatched) >= 5)
          => SubSeq(dispatched, 1, 5) = <<0, 1, 0, 1, 0>>

\* C3 witness: five dispatches over two workers.
C3_Witness == browser_count = 2 /\ Len(dispatched) = 5

\* C4: every attempt that ended by returning a token, returning nothing or
\* raising an automation exception has torn down every automation object it
\* created.
C4_AttemptTornDown ==
    \A c \in Callers :
        session[c].ended \in {"token", "absent", "exception"} => Live(session[c]) = {}

\* The accounts of the directory that pass every filter fi and fv require.
Survivors(fi, fv) ==
    {t \in TokenIds :
        /\ tokens[t].is_active
        /\ tokens[t].at_valid
        /\ fi => (tokens[t].image_enabled /\ t \notin image_full)
        /\ fv => (tokens[t].video_enabled /\ t \notin video_full)}

Range(s) == {s[k] : k \in 1..Len(s)}

\* The scenario: A (1) has image generation disabled, B (2) is at its image
\* ceiling, C (3) passes, and images are required.
ScenarioABC ==
    /\ \A t \in TokenIds : tokens[t].is_active <=> t \in {1, 2, 3}
    /\ \A t \in {1, 2, 3} : tokens[t].at_valid
    /\ ~tokens[1].image_enabled
    /\ tokens[2].image_enabled /\ 2 \in image_full
    /\ tokens[3].image_enabled /\ 3 \notin image_full
    /\ lb.for_image /\ ~lb.for_video

C8_NeverRaises ==
    \A c \in Callers :
        /\ ret[c].kind = "raised" => ret[c].exc \notin ExceptionSubclasses
        /\ (call[c].pc = "idle" /\ session[c].ended = "exception")
              => \/ ret[c].kind = "returned" /\ ret[c].token = None
                 \/ ret[c].kind = "raised" /\ ret[c].exc = "CancelledError"
        /\ call[c].pc = "sleep" => call[c].attempt < MAX_RETRIES - 1

\* C8 witness: a call has returned None after an exception in its last attempt.
C8_Witness ==
    \E c \in Callers :
        /\ call[c].pc = "idle"
        /\ session[c].ended = "exception"
        /\ ret[c].kind = "returned" /\ ret[c].token = None

\* C9: while the backend is unusable, get_token only raises RuntimeError:
\* the counters, the round-robin index, the workers and the semaphore stay
\* as constructed and no solve starts.
C9_UnavailableFailsFast ==
    ~CheckAvailable =>
        /\ stats = ZeroStats
        /\ round_robin_index = 0 /\ dispatched = <<>>
        /\ browsers = <<>> /\ objs = <<>>
        /\ sems = <<browser_count>>
        /\ \A c \in Callers :
              /\ call[c] = IdleCall
              /\ session[c] = NoSession
              /\ ret[c].kind \in {"none", "raised"}
              /\ ret[c].kind = "raised" => ret[c].exc = "RuntimeError"

\* C9 witness: a call was refused in a container where browser captcha is
\* disabled.
C9_Witness ==
    /\ IS_DOCKER /\ ~ALLOW_DOCKER_BROWSER_CAPTCHA
    /\ \E c \in Callers : ret[c].kind = "raised" /\ ret[c].exc = "RuntimeError"

\* C10: the slots taken from the pool semaphore are those of the calls
\* between admission and release, whatever way earlier calls ended; with no
\* call in progress every slot is free.
C10_SlotsReleased ==
    /\ browser_count - sems[token_semaphore] = Cardinality(SlotHolders)
    /\ (\A c \in Callers : call[c].pc = "idle") => sems[token_semaphore] = browser_count

\* C10 witness: no call is in progress after one was cancelled inside its
\* solve and another returned None.
C10_Witness ==
    /\ \A c \in Callers : call[c].pc = "idle"
    /\ \E c \in Callers : ret[c].kind = "raised" /\ session[c].ended = "cancelled"
    /\ \E c \in Callers : ret[c].kind = "returned" /\ ret[c].token = None

\* A step that ends a _load_browser_count: it has made a semaphore.
LoadCompletes == Len(sems') > Len(sems)

\* C11: a reload that completes changes no call in progress, whatever worker
\* it runs on: the solve goes on, and when it returns, the caller gets the
\* worker id it was dispatched to; and every dispatch is to an id below the
\* count in force, so below the new count after a reload.
C11_ReloadSparesSolves ==
    [][/\ LoadCompletes => UNCHANGED <<call, session, ret, objs>>
       /\ \A c \in Callers :
            /\ (call[c].pc \in {"idle", "wait_slot"} /\ call'[c].pc \in AdmittedPcs)
                  => call'[c].browser_id \in 0..(browser_count' - 1)
            /\ (call[c].pc \in SolvePcs /\ call'[c].pc = "idle"
                  /\ ret'[c].kind = "returned")
                  => ret'[c].browser_id = call[c].browser_id]_vars

\* C11 witness: a solve runs on a worker that a reload has dropped, while a
\* caller admitted after that reload solves on a worker below the new count.
C11_Witness ==
    \E c \in Callers, d \in Callers :
        /\ call[c].pc \in AttemptPcs
        /\ call[c].browser_id >= browser_count
        /\ call[c].browser_id \notin DOMAIN browsers
        /\ call[c].sem < token_semaphore
        /\ call[d].pc \in AttemptPcs
        /\ call[d].sem = token_semaphore
        /\ call[d].browser_id < browser_count

\* C12: when a reload completes no worker with an id at or above the new
\* count is left, every worker below it is the object it was, and a reload
\* that does not lower the count removes nothing.
C12_ReloadReconciles ==
    [][LoadCompletes =>
         /\ \A b \in DOMAIN browsers' : b < browser_count'
         /\ \A b \in DOMAIN browsers :
               b < browser_count' =>
                  /\ b \in DOMAIN browsers'
                  /\ browsers'[b] = browsers[b]
                  /\ objs'[browsers'[b]] = objs[browsers[b]]
         /\ browser_count' >= browser_count => browsers' = browsers]_vars

\* C13: no two solves run at once for one worker id, that is on one session
\* directory browser_<id>.
C13_DirectoryExclusive ==
    \A c \in InFlightSolves, d \in InFlightSolves :
        c # d => call[c].browser_id # call[d].browser_id

\* A step in which caller c's solve ends and get_token returns.
Returns(c) ==
    /\ call[c].pc \in SolvePcs
    /\ call'[c].pc = "idle"
    /\ ret'[c].kind = "returned"

\* C14, as stated: when every readiness wait timed out on each of the three
\* attempts of a solve, the call returns None and adds one to gen_fail and
\* nothing to gen_ok.
C14_UnreadyIsAbsent ==
    [][\A c \in Callers :
         (Returns(c) /\ call[c].attempt = MAX_RETRIES - 1 /\ ret'[c].waits # "other")
            => /\ ret'[c].token = None
               /\ stats'.gen_fail = stats.gen_fail + 1
               /\ stats'.gen_ok = stats.gen_ok]_vars

\* C14, amended: when on each attempt every readiness wait timed out and the
\* runtime was still absent when the execute calls ran, the call returns None
\* after three attempts and adds one to gen_fail, whatever the number of
\* attempts, and nothing to gen_ok.
C14_NeverReadyIsAbsent ==
    [][\A c \in Callers :
         (Returns(c) /\ ret'[c].waits = "never")
            => /\ call[c].attempt = MAX_RETRIES - 1
               /\ ret'[c].token = None
               /\ stats'.gen_fail = stats.gen_fail + 1
               /\ stats'.gen_ok = stats.gen_ok
               /\ stats'.req_total = stats.req_total]_vars

\* C14 witness: a call has returned None after three attempts that never saw
\* the runtime, and gen_fail has counted it.
C14_Witness ==
    \E c \in Callers :
        /\ ret[c].kind = "returned" /\ ret[c].waits = "never" /\ ret[c].token = None
        /\ stats.gen_fail >= 1

\* C15: a solve makes at most MAX_RETRIES attempts; a session is launched
\* only at the start of an attempt and from nothing; the next attempt starts
\* only after the delay that follows a failed one; a token ends the solve at
\* once; None is returned only from the last attempt; the delay never
\* follows the last attempt.
C15_RetryPolicy ==
    [][\A c \in Callers :
         /\ call'[c].attempt <= MAX_RETRIES - 1
         /\ (~session[c].playwright /\ session'[c].playwright)
               => (call[c].pc = "start" /\ session[c] = NoSession)
         /\ call'[c].attempt = call[c].attempt + 1
               => /\ call[c].pc = "sleep" /\ call'[c].pc = "start"
                  /\ session[c].ended \in {"absent", "exception"}
                  /\ session'[c] = NoSession
         /\ session'[c].ended = "token"
               => (call'[c].pc = "idle" /\ ret'[c].kind = "returned"
                   /\ ret'[c].token # None)
         /\ (Returns(c) /\ ret'[c].token = None) => call[c].attempt = MAX_RETRIES - 1
         /\ call'[c].pc = "sleep" => call'[c].attempt < MAX_RETRIES - 1]_vars

\* C15 witness: one call has returned None from its third attempt while
\* another runs its second attempt after the delay.
C15_Witness ==
    \E c \in Callers, d \in Callers :
        /\ ret[c].kind = "returned" /\ ret[c].token = None /\ call[c].pc = "idle"
        /\ call[d].attempt = 1 /\ call[d].pc = "run"

\* C16: a token _execute_captcha returns is a string of more than
\* PLAUSIBLE_LEN characters.
C16_TokenPlausible ==
    (exec.pc = "done" /\ exec.out.token # NoToken)
        => /\ exec.out.token.type = "str"
           /\ exec.out.token.len >= PLAUSIBLE_LEN + 1

\* C16 witness: a token is returned by a later pair after a string of
\* exactly PLAUSIBLE_LEN characters was passed over.
C16_Witness ==
    /\ exec.pc = "done"
    /\ exec.out.token # NoToken
    /\ Len(exec.out.tried) > 1
    /\ exec.page.other.type = "str" /\ exec.page.other.len = PLAUSIBLE_LEN

\* C17: a call that does not give an action hands the configured page_action
\* to the worker.
C17_DefaultAction ==
    (exec.pc \in {"resolved", "done"} /\ exec.arg = "omitted")
        => exec.action = exec.configured

\* C18: a report_error call adds one to api_403 and changes nothing else.
C18_ReportOnly ==
    [][stats'.api_403 # stats.api_403 =>
         /\ stats' = [stats EXCEPT !.api_403 = @ + 1]
         /\ UNCHANGED <<browser_count, round_robin_index, browsers, token_semaphore,
                        sems, objs, call, session, ret, dispatched>>
         /\ UNCHANGED <<envvars, adminvars, pagevars, lbvars>>]_vars

\* C18 witness: a report was counted while a solve runs on a live worker.
C18_Witness ==
    /\ stats.api_403 = 1
    /\ \E c \in Callers : call[c].pc \in AttemptPcs /\ call[c].browser_id \in DOMAIN browsers

\* C19: no step lowers a counter.
C19_CountersMonotone ==
    [][\A k \in DOMAIN stats : stats'[k] >= stats[k]]_vars

\* C19 witness: every counter has counted, after a reload and with no worker
\* left in the live set.
C19_Witness ==
    /\ \A k \in DOMAIN stats : stats[k] >= 1
    /\ Len(sems) > 1
    /\ browsers = <<>>

\* The numbers in the dict get_stats returns.
StatsKeys ==
    {"total_solve_count", "total_error_count", "risk_403_count", "browser_count",
     "configured_browser_count"}

\* C20: get_stats changes nothing, and what it returns holds the current
\* value of each of req_total, gen_ok, gen_fail and api_403.
C20_StatsComplete ==
    [][got' # got =>
         /\ UNCHANGED <<envvars, poolvars, pagevars, lbvars>>
         /\ \A k \in DOMAIN stats : \E f \in StatsKeys : got'[f] = stats[k]]_vars

\* C21: a session launched while the configuration has the proxy enabled
\* with a proxy URL is launched with that proxy.
C21_ProxyAlways ==
    (/\ proxy.pc = "launched"
     /\ proxy.cfg.db /\ proxy.cfg.enabled /\ proxy.cfg.url.kind = "text")
        => proxy.option.set

\* The capacity the k-th semaphore of the pool was made with: what is left
\* of it and what its holders have taken.
Capacity(k) ==
    sems[k] + Cardinality({c \in Callers : call[c].pc \in AdmittedPcs /\ call[c].sem = k})

\* C22: the callers past admission never exceed the largest browser_count
\* the pool has had.
C22_AdmissionAcrossReload ==
    \E k \in 1..Len(sems) : Cardinality(SlotHolders) <= Capacity(k)

\* C23: a caller that get_instance has returned to has a pool with its
\* semaphore made, and no solve runs without one.
C23_InstanceLoaded ==
    /\ \A c \in Callers : inst[c] = "has" => token_semaphore # 0
    /\ \A c \in Callers : call[c].pc \in AdmittedPcs => call[c].sem # 0

\* The get_token calls that passed _check_available and have not ended.
InProgress == {c \in Callers : call[c].pc # "idle"}

\* C24: req_total is the calls returned, counted once each in gen_ok or
\* gen_fail, plus the calls in progress.
C24_CountersExact ==
    stats.req_total = stats.gen_ok + stats.gen_fail + Cardinality(InProgress)

\* C25: the round-robin index moves only by a dispatch, by one, and the id
\* of the dispatch is the index before it modulo the browser_count in force,
\* an id below that count.
C25_IndexMonotone ==
    [][/\ round_robin_index' \in {round_robin_index, round_robin_index + 1}
       /\ (round_robin_index' = round_robin_index + 1)
             <=> (Len(dispatched') = Len(dispatched) + 1)
       /\ Len(dispatched') = Len(dispatched) + 1
             => /\ dispatched'[Len(dispatched')] = round_robin_index % browser_count
                /\ dispatched'[Len(dispatched')] \in 0..(browser_count - 1)
                /\ browser_count' = browser_count
       /\ Len(dispatched') # Len(dispatched) + 1 => dispatched' = dispatched]_vars

\* C25 witness: the pool started with two workers, a reload has set the
\* count to 1, and the dispatch at index 1 went to id 0.
C25_Witness ==
    /\ Len(sems) > 1
    /\ Capacity(1) = 2
    /\ browser_count = 1
    /\ round_robin_index = 2
    /\ dispatched = <<0, 0>>

Dispatched(c) ==
    /\ call[c].pc \in {"idle", "wait_slot"}
    /\ call'[c].pc \in {"wait_worker", "start"}

\* C27: a dispatch takes the id whose turn it is whether or not that worker
\* is solving, and waits for it when it is, whatever the other workers do.
C27_DispatchIgnoresIdle ==
    [][\A c \in Callers :
         Dispatched(c) =>
            LET turn == round_robin_index % browser_count
            IN  /\ call'[c].browser_id = turn
                /\ (call'[c].pc = "wait_worker")
                      <=> (turn \in DOMAIN browsers /\ objs[browsers[turn]].locked)]_vars

\* C27 witness: with two workers a caller that holds a slot waits for its
\* worker's lock while the other worker is live and not solving.
C27_Witness ==
    \E c \in Callers, b \in BrowserIds :
        /\ browser_count >= 2
        /\ call[c].pc = "wait_worker" /\ call[c].sem = token_semaphore
        /\ b < browser_count /\ b # call[c].browser_id
        /\ b \in DOMAIN browsers /\ ~objs[browsers[b]].locked

\* The parts of C28 on how a worker comes to be: the live ids have been
\* dispatched; an id enters the live set in the dispatch that selects it,
\* with a new worker; a live id keeps its worker, and a dispatch to it makes
\* no worker.
CreatedOnDispatch ==
    /\ DOMAIN browsers \subseteq Range(dispatched)
    /\ \A b \in DOMAIN browsers' \ DOMAIN browsers :
          /\ Len(dispatched') = Len(dispatched) + 1
          /\ dispatched'[Len(dispatched')] = b
          /\ Len(objs') = Len(objs) + 1
          /\ browsers'[b] = Len(objs')
          /\ objs'[Len(objs')].token_id = b
    /\ \A b \in DOMAIN browsers \cap DOMAIN browsers' : browsers'[b] = browsers[b]
    /\ Len(objs') # Len(objs) => DOMAIN browsers' # DOMAIN browsers
    /\ \A c \in Callers :
          (Dispatched(c) /\ call'[c].browser_id \in DOMAIN browsers)
             => call'[c].obj = browsers[call'[c].browser_id]

\* C28, as stated: workers are made by the dispatch that first selects their
\* id and reused afterwards, and a live worker is removed only by a reload
\* that lowers browser_count to at most its id.
C28_RemovedOnlyByShrink ==
    [][/\ CreatedOnDispatch
       /\ \A b \in DOMAIN browsers \ DOMAIN browsers' :
             /\ LoadCompletes
             /\ browser_count' < browser_count
             /\ browser_count' <= b]_vars

\* C28, amended: workers are made by the dispatch that first selects their
\* id and reused afterwards, and a live worker is removed only by
\* remove_browser of its id, by close, or by a reload that lowers
\* browser_count, from the value the reload read when it began, to at most
\* the worker's id.
C28_WorkerLifecycle ==
    [][/\ CreatedOnDispatch
       /\ \A b \in DOMAIN browsers \ DOMAIN browsers' :
             \/ /\ LoadCompletes
                /\ browser_count' <= b
                /\ \E r \in Reloaders :
                      /\ reload[r].pc = "reading" /\ reload'[r].pc = "idle"
                      /\ browser_count' < reload[r].old_count
             \/ /\ DOMAIN browsers' \in {{}, DOMAIN browsers \ {b}}
                /\ UNCHANGED <<browser_count, round_robin_index, stats, token_semaphore,
                               sems, objs, call, session, ret, dispatched>>]_vars

\* C28 witness: after a reload, a live worker is the second one made for its
\* id: the first was removed and a later dispatch made it anew.
C28_Witness ==
    /\ Len(sems) > 1
    /\ \E b \in DOMAIN browsers :
          \E o \in 1..(browsers[b] - 1) : objs[o].token_id = b

\* C29: outside an attempt, in the delay, at the start of the next attempt
\* and after the call, nothing of a session is live.
C29_NoSessionOutsideAttempt ==
    \A c \in Callers :
        call[c].pc \in {"sleep", "start", "idle"} => Live(session[c]) = {}

\* The place of x in the sequence s, 0 if it is not there.
Position(s, x) ==
    IF \E i \in 1..Len(s) : s[i] = x
    THEN CHOOSE i \in 1..Len(s) : s[i] = x /\ \A j \in 1..(i - 1) : s[j] # x
    ELSE 0

FixedActions == <<"IMAGE_GENERATION", "VIDEO_GENERATION", "GENERATE", "GENERATION">>

\* C30: the actions are the requested one and then the fixed four in their
\* order, each once; the pairs tried are an initial stretch of the key-major
\* order; a token is the result of the last pair tried, the first one with
\* a plausible result; with no token every pair was tried and none was
\* plausible.
C30_PairOrder ==
    (exec.pc = "done" /\ exec.page.goto) =>
        LET out == exec.out
            keys == out.key_candidates
            acts == out.action_candidates
            tried == out.tried
            Before(p, q) ==
                \/ Position(keys, p[1]) < Position(keys, q[1])
                \/ p[1] = q[1] /\ Position(acts, p[2]) < Position(acts, q[2])
            Result(p) == Execute(exec.page, out.runtime, p[1], p[2])
            all == {<<keys[i], acts[j]>> : i \in 1..Len(keys), j \in 1..Len(acts)}
        IN  /\ acts[1] = exec.action
            /\ Range(acts) = {exec.action} \cup Range(FixedActions)
            /\ Len(acts) = Cardinality(Range(acts))
            /\ \A i \in 2..Len(acts), j \in 2..Len(acts) :
                  i < j => Position(FixedActions, acts[i]) < Position(FixedActions, acts[j])
            /\ Range(tried) \subseteq all
            /\ \A m \in 1..Len(tried), n \in 1..Len(tried) :
                  m < n => Before(tried[m], tried[n])
            /\ \A n \in 1..Len(tried) : \A p \in all :
                  Before(p, tried[n]) => p \in Range(tried)
            /\ \A n \in 1..(Len(tried) - 1) : ~Plausible(Result(tried[n]))
            /\ IF out.token # NoToken
               THEN /\ tried # <<>>
                    /\ out.token = Result(tried[Len(tried)])
                    /\ Plausible(out.token)
               ELSE /\ Range(tried) = all
                    /\ \A n \in 1..Len(tried) : ~Plausible(Result(tried[n]))

\* C30 witness: with a requested action outside the fixed four, the token
\* came from a pair of the second key, after every pair of the first key
\* gave a short string.
C30_Witness ==
    /\ exec.pc = "done"
    /\ exec.action = "CUSTOM"
    /\ exec.out.token # NoToken
    /\ Len(exec.out.key_candidates) >= 2
    /\ Len(exec.out.tried) > Len(exec.out.action_candidates)
    /\ exec.out.tried[Len(exec.out.tried)][2] # "CUSTOM"
    /\ exec.page.other.type = "str"

\* The parts of C31 that do not concern the place of the configured key: the
\* candidates are the keys of the page and the configured key, each once,
\* and the keys of the page keep their order.
KeysOfPageInOrder ==
    LET keys == exec.out.key_candidates
        found == exec.page.extracted_keys
    IN  /\ Range(keys) = Range(found) \cup {ConfiguredKey}
        /\ Len(keys) = Cardinality(Range(keys))
        /\ \A i \in 1..Len(found), j \in 1..Len(found) :
              i < j => Position(keys, found[i]) < Position(keys, found[j])

\* C31, as stated: the key candidates are the keys of the page in page
\* order and the configured key, each once, with the configured key last.
C31_ConfiguredKeyLast ==
    (exec.pc = "done" /\ exec.page.goto) =>
        /\ KeysOfPageInOrder
        /\ exec.out.key_candidates[Len(exec.out.key_candidates)] = ConfiguredKey

\* C31, amended: the key candidates are the keys of the page in page order
\* and the configured key, each once; the configured key is last when the
\* page does not have it, and stays at its place among the keys of the page
\* when it does.
C31_KeyCandidates ==
    (exec.pc = "done" /\ exec.page.goto) =>
        LET keys == exec.out.key_candidates
            found == exec.page.extracted_keys
        IN  /\ KeysOfPageInOrder
            /\ IF ConfiguredKey \in Range(found)
               THEN keys = found
               ELSE /\ keys[Len(keys)] = ConfiguredKey
                    /\ SubSeq(keys, 1, Len(keys) - 1) = found

\* C31 witness: the page has the configured key before another key, and the
\* attempt has tried the configured key first.
C31_Witness ==
    /\ exec.pc = "done"
    /\ exec.page.extracted_keys = <<ConfiguredKey, "K1">>
    /\ exec.out.key_candidates = <<ConfiguredKey, "K1">>
    /\ exec.out.tried # <<>>
    /\ exec.out.tried[1][1] = ConfiguredKey

\* C32: with the runtime there on arrival no loader is injected; otherwise
\* loaders are injected for the key candidates in order, one at a time, and
\* none after a key whose wait saw the runtime: every key before the last
\* injected one timed out, and the step ends ready exactly when the last
\* one did not.
C32_ReadinessStep ==
    (exec.pc = "done" /\ exec.page.goto) =>
        LET keys == exec.out.key_candidates
            injected == exec.out.injected
            w == exec.page
        IN  /\ w.present => (injected = <<>> /\ ~exec.out.unready)
            /\ Len(injected) <= Len(keys)
            /\ injected = SubSeq(keys, 1, Len(injected))
            /\ \A i \in 1..(Len(injected) - 1) : injected[i] \notin w.ready_on
            /\ ~w.present =>
                  /\ injected # <<>>
                  /\ exec.out.unready <=> injected[Len(injected)] \notin w.ready_on
                  /\ exec.out.unready => injected = keys

\* C32 witness: of three key candidates the second one's loader brought the
\* runtime, so the third got no loader.
C32_Witness ==
    /\ exec.pc = "done"
    /\ ~exec.page.present
    /\ Len(exec.out.key_candidates) = 3
    /\ Len(exec.out.injected) = 2
    /\ exec.out.injected[2] \in exec.page.ready_on
    /\ exec.page.ready_on = {exec.out.key_candidates[2], exec.out.key_candidates[3]}

\* C33: after a navigation whose wait for an idle network timed out the
\* attempt goes on to the keys and the execute calls as it would have
\* otherwise; after a failed navigation it returns None with no key and no
\* pair tried; the page is closed either way.
C33_NavigationOutcomes ==
    exec.pc = "done" =>
        /\ exec.out.closed
        /\ (exec.page.goto /\ ~exec.page.settles) =>
              /\ exec.out.key_candidates # <<>>
              /\ exec.out.tried # <<>>
              /\ exec.out = ExecuteCaptcha([exec.page EXCEPT !.settles = TRUE],
                                           ConfiguredKey, exec.action)
        /\ ~exec.page.goto =>
              /\ exec.out.token = NoToken
              /\ exec.out.key_candidates = <<>>
              /\ exec.out.injected = <<>>
              /\ exec.out.tried = <<>>

\* C33 witness: the network never went idle and the attempt still returned
\* a token.
C33_Witness ==
    /\ exec.pc = "done"
    /\ exec.page.goto /\ ~exec.page.settles
    /\ exec.out.token # NoToken
    /\ exec.out.closed

\* A step in which reloader r's reload ends as it does when the
\* configuration read has raised.
FailedReload(r) ==
    LET cfg == [db |-> TRUE, fails |-> TRUE, browser_count |-> 0]
    IN  /\ reload[r].pc = "reading"
        /\ reload'[r].pc = "idle"
        /\ browser_count' = LoadBrowserCount(cfg)
        /\ sems' = Append(sems, LoadBrowserCount(cfg))

\* C34: a reload whose configuration read fails ends without raising, with
\* browser_count 1 and an admission semaphore of one slot, and leaves no
\* worker with an id of 1 or more.
C34_FailedReadFallsBack ==
    [][\A r \in Reloaders :
          FailedReload(r) =>
             /\ browser_count' = 1
             /\ sems'[token_semaphore'] = 1
             /\ \A b \in DOMAIN browsers' : b < 1]_vars

\* The instances made so far by get_instance: each has had its
\* _load_browser_count, which is still reading or has made a semaphore.
Constructed ==
    Len(sems) + Cardinality({c \in Callers : inst[c] = "loading"})

\* C35: however the get_instance calls interleave, one instance at most is
\* made, every caller that has an instance has that one, and get_instance
\* loads the configuration once.
C35_OneInstance ==
    /\ Constructed <= 1
    /\ (\E c \in Callers : inst[c] # "none") => Constructed = 1
    /\ (\A c \in Callers : inst[c] = "has") => Len(sems) = 1

\* C35 witness: every caller has the instance and the configuration was
\* loaded once, one caller having got the instance while the other's load
\* was reading: its solve was admitted before there was a semaphore.
C35_Witness ==
    /\ db
    /\ \A c \in Callers : inst[c] = "has"
    /\ Len(sems) = 1
    /\ \E c \in Callers : call[c].pc \in AdmittedPcs /\ call[c].sem = 0

\* C37: what _log_stats computes from the counters in any state: the valid
\* successes are gen_ok less api_403 or 0, whichever is larger; the rate is
\* 0 without requests and is never above 100, gen_ok never being above
\* req_total.
C37_RateBounded ==
    LET l == LogStats(stats)
    IN  /\ l.valid_success >= 0
        /\ l.valid_success >= stats.gen_ok - stats.api_403
        /\ l.valid_success \in {0, stats.gen_ok - stats.api_403}
        /\ stats.req_total = 0 => l.rate.num = 0
        /\ stats.gen_ok <= stats.req_total
        /\ l.rate.den > 0
        /\ l.rate.num <= 100 * l.rate.den

\* C37 witness: a solve has failed and been logged, and a report has come
\* in, so that api_403 is above gen_ok.
C37_Witness ==
    /\ stats.api_403 > stats.gen_ok
    /\ stats.gen_fail >= 1
    /\ \E c \in Callers : ret[c].kind = "returned"
    /\ LogStats(stats).rate.num = 0

\* The checks of select_token in their order, each with the reason it
\* records, and whether account t fails it for a call requiring the kinds
\* fi and fv.
FilterOrder ==
    <<[check |-> "is_at_valid", reason |-> "at_invalid"],
      [check |-> "image_enabled", reason |-> "image_disabled"],
      [check |-> "can_use_image", reason |-> "image_concurrency_full"],
      [check |-> "video_enabled", reason |-> "video_disabled"],
      [check |-> "can_use_video", reason |-> "video_concurrency_full"]>>

FailsCheck(t, n, fi, fv) ==
    CASE n = 1 -> ~tokens[t].at_valid
      [] n = 2 -> fi /\ ~tokens[t].image_enabled
      [] n = 3 -> fi /\ concurrency_manager /\ t \in image_full
      [] n = 4 -> fv /\ ~tokens[t].video_enabled
      [] n = 5 -> fv /\ concurrency_manager /\ t \in video_full

\* C38: every account of the snapshot that fails a check has one reason,
\* that of the first check it fails in the order credential, image enabled,
\* image concurrency, video enabled, video concurrency, and no check after
\* that one was evaluated for it; an account that fails none has no reason
\* and is among the available ones.
C38_FirstReasonOnly ==
    lb.pc = "done" =>
        \A t \in Range(lb.active_tokens) :
            LET failed == {n \in 1..5 : FailsCheck(t, n, lb.for_image, lb.for_video)}
                first == CHOOSE n \in failed : \A m \in failed : n <= m
                seen == lb.evaluated[t]
            IN  IF failed = {}
                THEN /\ t \notin DOMAIN lb.filtered_reasons
                     /\ t \in Range(lb.available_tokens)
                ELSE /\ t \in DOMAIN lb.filtered_reasons
                     /\ lb.filtered_reasons[t] = FilterOrder[first].reason
                     /\ t \notin Range(lb.available_tokens)
                     /\ seen[Len(seen)] = FilterOrder[first].check
                     /\ \A n \in (first + 1)..5 :
                           FilterOrder[n].check \notin Range(seen)

\* C38 witness: a call requiring both kinds drops one account for its image
\* ceiling although its video generation is disabled too, drops another for
\* its credential, and keeps a third.
C38_Witness ==
    /\ lb.pc = "done"
    /\ lb.for_image /\ lb.for_video
    /\ lb.available_tokens # <<>>
    /\ \E t \in DOMAIN lb.filtered_reasons, u \in DOMAIN lb.filtered_reasons :
          /\ lb.filtered_reasons[t] = "image_concurrency_full"
          /\ ~tokens[t].video_enabled
          /\ lb.evaluated[t] = <<"is_at_valid", "image_enabled", "can_use_image">>
          /\ lb.filtered_reasons[u] = "at_invalid"
          /\ ~tokens[u].image_enabled

\* A step of a select_token call, from its begin to its return.
SelectStep ==
    \E s \in Selectors : sels'[s] # sels[s]

\* C36: no step of select_token changes the ledger or the accounts, and the
\* account a call returns passed its checks when the call made them; so
\* nothing holds the headroom it saw.
C36_ChecksWithoutReserving ==
    [][SelectStep =>
         /\ UNCHANGED <<tokens, image_full, video_full, concurrency_manager>>
         /\ \A s \in Selectors :
               sels'[s].selected # 0 =>
                  sels'[s].selected \in Range(sels'[s].available_tokens)]_vars

\* C36 witness: two calls that ran at once have both returned the same
\* account for an image generation; the account had image headroom when
\* each call checked it, its last slot was taken while the second call was
\* still looping, and the second call returned it at its ceiling.
C36_Witness ==
    \E t \in TokenIds :
        /\ \A s \in Selectors :
              /\ sels[s].pc = "done"
              /\ sels[s].for_image
              /\ sels[s].selected = t
        /\ t \in image_full
        /\ ~sels[1].at_ceiling
        /\ sels[2].at_ceiling

====
